---- MODULE Spec2Model ----
(***************************************************************************)
(* Georgia Community Resilience Index.                                     *)
(*                                                                         *)
(* State machines over one set of variables:                               *)
(*   - the Index Composer batch script (compute_CRI.py) and the three      *)
(*     stage scripts (sev.py, healthcare_resilience.py, usda_loader.py),   *)
(*   - the range-phrase parser applied to one question                     *)
(*     (a.py: parse_cri_range),                                            *)
(*   - the dashboard's query side (a.py: load_data, filter_cri, the        *)
(*     "Run Chat" handler, the map and radius filters, the Details panel), *)
(*   - the Alert Overlay (a.py: fetch_noaa_warnings under                  *)
(*     st.cache_data(ttl=300)), alone and called from several sessions,    *)
(*   - the resilience clustering (interactive_dashboard.py:                *)
(*     compute_res_clusters),                                              *)
(*   - the news feed pagination of the sidebar (a.py).                     *)
(* Each has its own specification; the variables of the other machines     *)
(* stay at their idle values.                                              *)
(*                                                                         *)
(* Numbers.  Python floats are modelled as exact rationals                 *)
(* [k |-> "num", n, d] in lowest terms (d > 0), NaN as [k |-> "nan"].      *)
(* Floating-point rounding error is not modelled.                          *)
(* Text.  CSV cells, FIPS codes and chat queries are strings, read         *)
(* character by character.  An empty CSV cell is the string "" (pandas     *)
(* reads it as NaN).                                                       *)
(***************************************************************************)
EXTENDS Integers, Sequences, FiniteSets, TLC

VARIABLES
    \* Index Composer (compute_CRI.py)
    socio_df, food_df, health_df, merged_file, csv_out, pc,
    \* Dashboard query side (a.py)
    csv_file, cri_df, centroids, chat, df_map,
    \* Range-phrase parser applied to one text (a.py, parse_cri_range)
    parsed,
    \* Alert Overlay (a.py, fetch_noaa_warnings)
    now, cache, feed, calls,
    \* Alert Overlay called from several sessions at once (st.cache_data)
    sess, lock, fetches,
    \* Socioeconomic stage (sev.py)
    sev_df, sev_pc,
    \* Healthcare stage (healthcare_resilience.py)
    hc_df, hc_pc,
    \* Food stage (usda_loader.py)
    census, atlas, county_flag, merged, food_pc,
    \* Resilience clustering (interactive_dashboard.py, compute_res_clusters)
    clustered_df, kmeans_model,
    \* News feed pagination (a.py, the sidebar)
    session_state, sidebar

composeVars == <<socio_df, food_df, health_df, merged_file, csv_out, pc>>
queryVars   == <<csv_file, cri_df, centroids, chat, df_map>>
parseVars   == <<parsed>>
overlayVars == <<now, cache, feed, calls>>
flightVars  == <<sess, lock, fetches>>
sevVars     == <<sev_df, sev_pc>>
healthVars  == <<hc_df, hc_pc>>
foodVars    == <<census, atlas, county_flag, merged, food_pc>>
clusterVars == <<clustered_df, kmeans_model>>
newsVars    == <<session_state, sidebar>>
vars == <<socio_df, food_df, health_df, merged_file, csv_out, pc,
          csv_file, cri_df, centroids, chat, df_map, parsed, now, cache, feed,
          calls,
          sess, lock, fetches, sev_df, sev_pc, hc_df, hc_pc,
          census, atlas, county_flag, merged, food_pc,
          clustered_df, kmeans_model, session_state, sidebar>>

----------------------------------------------------------------------------
(* Bounds of the model *)

MaxSocioRows == 2
MaxStageRows == 1
MaxTableRows == 3
MaxPhrases   == 2
MaxCalls     == 3

----------------------------------------------------------------------------
(* Characters and strings *)

Char(s, i) == SubSeq(s, i, i)

Digits == "0123456789"

IsDigit(c) == \E i \in 1..10 : Char(Digits, i) = c

DigitVal(c) == (CHOOSE i \in 1..10 : Char(Digits, i) = c) - 1

RECURSIVE IntOf(_)
IntOf(s) ==
    IF Len(s) = 0 THEN 0
    ELSE IntOf(SubSeq(s, 1, Len(s) - 1)) * 10 + DigitVal(Char(s, Len(s)))

RECURSIVE Pow10(_)
Pow10(k) == IF k = 0 THEN 1 ELSE 10 * Pow10(k - 1)

----------------------------------------------------------------------------
(* Floats as exact rationals, NaN as a value of its own *)

RECURSIVE Gcd(_, _)
Gcd(a, b) == IF b = 0 THEN a ELSE Gcd(b, a % b)

Abs(a) == IF a < 0 THEN -a ELSE a

NaN == [k |-> "nan", n |-> 0, d |-> 1]

R(n, d) ==
    LET g == Gcd(Abs(n), d)
    IN  [k |-> "num", n |-> n \div g, d |-> d \div g]

IsNaN(a) == a.k = "nan"

\* a + b, a * b, 1 - a style float arithmetic: NaN in, NaN out
RAdd(a, b) ==
    IF IsNaN(a) \/ IsNaN(b) THEN NaN ELSE R(a.n * b.d + b.n * a.d, a.d * b.d)

RMul(a, b) ==
    IF IsNaN(a) \/ IsNaN(b) THEN NaN ELSE R(a.n * b.n, a.d * b.d)

\* a <= b, a >= b on floats: every comparison with NaN is False
RLeq(a, b) == ~IsNaN(a) /\ ~IsNaN(b) /\ a.n * b.d <= b.n * a.d

RGeq(a, b) == ~IsNaN(a) /\ ~IsNaN(b) /\ a.n * b.d >= b.n * a.d

RLt(a, b) == ~IsNaN(a) /\ ~IsNaN(b) /\ a.n * b.d < b.n * a.d

\* float(s) / pd.to_numeric(s, errors="coerce") on the strings of the model:
\* an optional "-", digits with at most one ".", at least one digit.  Anything
\* else is no number: pd.to_numeric coerces it to NaN.
ParseDecimal(s) ==
    LET neg  == Len(s) > 0 /\ Char(s, 1) = "-"
        body == IF neg THEN SubSeq(s, 2, Len(s)) ELSE s
        dots == {i \in 1..Len(body) : Char(body, i) = "."}
        ok   == /\ Cardinality(dots) <= 1
                /\ \A i \in 1..Len(body) : i \in dots \/ IsDigit(Char(body, i))
                /\ Len(body) - Cardinality(dots) >= 1
        p    == IF dots = {} THEN Len(body) + 1 ELSE CHOOSE i \in dots : TRUE
        ip   == SubSeq(body, 1, p - 1)
        fp   == SubSeq(body, p + 1, Len(body))
        mag  == IntOf(ip) * Pow10(Len(fp)) + IntOf(fp)
    IN  IF ok THEN R(IF neg THEN -mag ELSE mag, Pow10(Len(fp))) ELSE NaN

----------------------------------------------------------------------------
(* Index Composer: compute_CRI.py *)

\* str.zfill(w): pad with "0" on the left up to width w
RECURSIVE Zfill(_, _)
Zfill(s, w) == IF Len(s) >= w THEN s ELSE Zfill("0" \o s, w)

\* the region a row stands for: its zero-padded (state, county) key
RegionKey(r) == <<Zfill(r.state, 2), Zfill(r.county, 3)>>

\* mutation of ZeroPadFrame: the county column left as read
ZeroPadFrame_StateOnly(df) ==
    [i \in 1..Len(df) |-> [df[i] EXCEPT !.state = Zfill(@, 2)]]

ZeroPadFrame(df) ==
    [i \in 1..Len(df) |->
        [df[i] EXCEPT !.state = Zfill(@, 2), !.county = Zfill(@, 3)]]

\* the values of the right table's rows that match the left row on (state, county),
\* in the right table's order
RECURSIVE RightMatches(_, _, _)
RightMatches(l, right, i) ==
    IF i > Len(right) THEN <<>>
    ELSE (IF right[i].state = l.state /\ right[i].county = l.county
          THEN <<right[i].val>> ELSE <<>>) \o RightMatches(l, right, i + 1)

\* mutation of LeftJoinVals: an inner join, a left row without a match is dropped
LeftJoinVals_Inner(l, right) == RightMatches(l, right, 1)

\* the values a left row gets from a left-outer join: one per matching right row,
\* a single missing value when there is none
LeftJoinVals(l, right) ==
    LET m == RightMatches(l, right, 1) IN IF m = <<>> THEN <<"">> ELSE m

\* socio_df.merge(food_df[[state, county, Resilience_Food]], how="left")
RECURSIVE MergeFood(_, _, _)
MergeFood(left, right, i) ==
    IF i > Len(left) THEN <<>>
    ELSE LET l == left[i]
             v == LeftJoinVals(l, right)
         IN  [j \in 1..Len(v) |->
                [state |-> l.state, county |-> l.county, name |-> l.name,
                 Resilience_Socio |-> l.val, Resilience_Food |-> v[j]]]
             \o MergeFood(left, right, i + 1)

\* .merge(health_df[[state, county, Resilience_Health]], how="left")
RECURSIVE MergeHealth(_, _, _)
MergeHealth(left, right, i) ==
    IF i > Len(left) THEN <<>>
    ELSE LET l == left[i]
             v == LeftJoinVals(l, right)
         IN  [j \in 1..Len(v) |->
                [state |-> l.state, county |-> l.county, name |-> l.name,
                 Resilience_Socio |-> l.Resilience_Socio,
                 Resilience_Food |-> l.Resilience_Food,
                 Resilience_Health |-> v[j]]]
             \o MergeHealth(left, right, i + 1)

w1 == R(1, 3)
w2 == R(1, 3)
w3 == R(1, 3)

\* mutation of RowCRI: the third weight left out of the formula
RowCRI_Unweighted(r) ==
    RAdd(RAdd(RMul(w1, r.Resilience_Socio), RMul(w2, r.Resilience_Food)),
         r.Resilience_Health)

\* mutation of RowCRI: a missing sub-score counted as zero (fillna(0))
ZeroIfNaN(a) == IF IsNaN(a) THEN R(0, 1) ELSE a
RowCRI_FillZero(r) ==
    RAdd(RAdd(RMul(w1, ZeroIfNaN(r.Resilience_Socio)),
              RMul(w2, ZeroIfNaN(r.Resilience_Food))),
         RMul(w3, ZeroIfNaN(r.Resilience_Health)))

\* w1 * socio + w2 * food + w3 * health on one row
RowCRI(r) ==
    RAdd(RAdd(RMul(w1, r.Resilience_Socio), RMul(w2, r.Resilience_Food)),
         RMul(w3, r.Resilience_Health))

\* the raw stage tables the composer can find on disk
SocioKeys  == {"1", "2"}
StageKeys  == {"001", "3", "1.0"}
SocioCells == {"0.8", "abc"}
FoodCells  == {"0.6", ""}
HealthCells == {"0.7", "1.5"}

SocioRows  == [state : {"13"}, county : SocioKeys, name : {"x"}, val : SocioCells]
FoodRows   == [state : {"13"}, county : StageKeys, val : FoodCells]
HealthRows == [state : {"13"}, county : StageKeys, val : HealthCells]

SeqsUpTo(S, lo, hi) == UNION {[1..n -> S] : n \in lo..hi}

NoChat == [kind |-> "none"]
NoCache == [has |-> FALSE]

NoMap == [ran |-> FALSE]
NoParse == [ran |-> FALSE]
ParseIdle == parsed = NoParse
QueryIdle ==
    /\ csv_file = <<>> /\ cri_df = <<>> /\ centroids = <<>>
    /\ chat = NoChat /\ df_map = NoMap
IdleFeed == [status |-> "idle", features |-> <<>>]
OverlayIdle == now = 0 /\ cache = NoCache /\ feed = IdleFeed /\ calls = <<>>
ComposeIdle ==
    /\ socio_df = <<>> /\ food_df = <<>> /\ health_df = <<>>
    /\ merged_file = <<>> /\ csv_out = <<>> /\ pc = "idle"
FlightIdle == sess = <<>> /\ lock = 0 /\ fetches = <<>>
SevIdle == sev_df = <<>> /\ sev_pc = "idle"
HealthIdle == hc_df = <<>> /\ hc_pc = "idle"
FoodIdle ==
    /\ census = <<>> /\ atlas = <<>> /\ county_flag = {} /\ merged = <<>>
    /\ food_pc = "idle"
NoClusters == [ran |-> FALSE]
ClusterIdle == clustered_df = NoClusters /\ kmeans_model = NoClusters
NoSession == [set |-> FALSE]
NoSidebar == [ran |-> FALSE]
NewsIdle == session_state = NoSession /\ sidebar = NoSidebar

\* pd.read_csv(..., dtype=str) of the three stage outputs
ComposeInit ==
    /\ socio_df \in SeqsUpTo(SocioRows, 1, MaxSocioRows)
    /\ food_df \in SeqsUpTo(FoodRows, 0, MaxStageRows)
    /\ health_df \in SeqsUpTo(HealthRows, 0, MaxStageRows)
    /\ merged_file = <<>>
    /\ csv_out = <<>>
    /\ pc = "loaded"

ZeroPad ==
    /\ pc = "loaded"
    /\ socio_df' = ZeroPadFrame(socio_df)
    /\ food_df' = ZeroPadFrame(food_df)
    /\ health_df' = ZeroPadFrame(health_df)
    /\ pc' = "padded"
    /\ UNCHANGED <<merged_file, csv_out>>
    /\ UNCHANGED <<queryVars, parseVars, overlayVars>>
    /\ UNCHANGED <<flightVars, sevVars, healthVars, foodVars, clusterVars, newsVars>>

Merge ==
    /\ pc = "padded"
    /\ merged_file' = MergeHealth(MergeFood(socio_df, food_df, 1), health_df, 1)
    /\ pc' = "merged"
    /\ UNCHANGED <<socio_df, food_df, health_df, csv_out>>
    /\ UNCHANGED <<queryVars, parseVars, overlayVars>>
    /\ UNCHANGED <<flightVars, sevVars, healthVars, foodVars, clusterVars, newsVars>>

ToNumeric ==
    /\ pc = "merged"
    /\ merged_file' =
         [i \in 1..Len(merged_file) |->
            [merged_file[i] EXCEPT
                !.Resilience_Socio = ParseDecimal(@),
                !.Resilience_Food = ParseDecimal(@),
                !.Resilience_Health = ParseDecimal(@)]]
    /\ pc' = "numeric"
    /\ UNCHANGED <<socio_df, food_df, health_df, csv_out>>
    /\ UNCHANGED <<queryVars, parseVars, overlayVars>>
    /\ UNCHANGED <<flightVars, sevVars, healthVars, foodVars, clusterVars, newsVars>>

ComputeCRI ==
    /\ pc = "numeric"
    /\ merged_file' =
         [i \in 1..Len(merged_file) |->
            [state |-> merged_file[i].state,
             county |-> merged_file[i].county,
             name |-> merged_file[i].name,
             Resilience_Socio |-> merged_file[i].Resilience_Socio,
             Resilience_Food |-> merged_file[i].Resilience_Food,
             Resilience_Health |-> merged_file[i].Resilience_Health,
             CRI |-> RowCRI(merged_file[i])]]
    /\ pc' = "cri"
    /\ UNCHANGED <<socio_df, food_df, health_df, csv_out>>
    /\ UNCHANGED <<queryVars, parseVars, overlayVars>>
    /\ UNCHANGED <<flightVars, sevVars, healthVars, foodVars, clusterVars, newsVars>>

\* output.to_csv(OUTPUT_CSV): the columns kept and renamed
Save ==
    /\ pc = "cri"
    /\ csv_out' =
         [i \in 1..Len(merged_file) |->
            [StateFIPS |-> merged_file[i].state,
             StateName |-> "Georgia",
             CountyFIPS |-> merged_file[i].county,
             CountyName |-> merged_file[i].name,
             Socio |-> merged_file[i].Resilience_Socio,
             Food |-> merged_file[i].Resilience_Food,
             Health |-> merged_file[i].Resilience_Health,
             CRI |-> merged_file[i].CRI]]
    /\ pc' = "saved"
    /\ UNCHANGED <<socio_df, food_df, health_df, merged_file>>
    /\ UNCHANGED <<queryVars, parseVars, overlayVars>>
    /\ UNCHANGED <<flightVars, sevVars, healthVars, foodVars, clusterVars, newsVars>>

ComposeNext == ZeroPad \/ Merge \/ ToNumeric \/ ComputeCRI \/ Save

InitCompose == ComposeInit /\ QueryIdle /\ ParseIdle /\ OverlayIdle
    /\ FlightIdle /\ SevIdle /\ HealthIdle /\ FoodIdle /\ ClusterIdle /\ NewsIdle

SpecCompose == InitCompose /\ [][ComposeNext]_vars

----------------------------------------------------------------------------
(* Properties of the Index Composer *)

Zero == R(0, 1)
One  == R(1, 1)
InUnit(a) == RLeq(Zero, a) /\ RLeq(a, One)

OutRows == {csv_out[i] : i \in 1..Len(csv_out)}
OutKey(r) == <<r.StateFIPS, r.CountyFIPS>>
Regions(df) == {RegionKey(df[i]) : i \in 1..Len(df)}

\* C1: in the written canonical table, every row whose three sub-scores are all
\* present and in [0,1] has CRI = (socio + food + health) / 3, and 0 <= CRI <= 1.
C1_CRIIsMean ==
    pc = "saved" =>
        \A r \in OutRows :
            (InUnit(r.Socio) /\ InUnit(r.Food) /\ InUnit(r.Health)) =>
                /\ ~IsNaN(r.CRI)
                /\ RMul(R(3, 1), r.CRI) = RAdd(RAdd(r.Socio, r.Food), r.Health)
                /\ InUnit(r.CRI)

\* a written row with sub-scores 0.8, 0.6, 0.7 and CRI 0.7
C1_Witness ==
    /\ pc = "saved"
    /\ \E r \in OutRows :
          /\ r.Socio = R(8, 10) /\ r.Food = R(6, 10) /\ r.Health = R(7, 10)
          /\ r.CRI = R(7, 10)

\* C2: a row of the canonical table whose region has no row in the food or the
\* healthcare stage, or one of whose three sub-scores is not numeric, has a
\* missing CRI (never zero, never the mean of the others).
C2_MissingPropagates ==
    pc = "saved" =>
        \A r \in OutRows :
            /\ ( \/ OutKey(r) \notin Regions(food_df)
                 \/ OutKey(r) \notin Regions(health_df)
                 \/ IsNaN(r.Socio) \/ IsNaN(r.Food) \/ IsNaN(r.Health) )
               => IsNaN(r.CRI)
            /\ (\A i \in 1..Len(socio_df) :
                    RegionKey(socio_df[i]) = OutKey(r) =>
                        IsNaN(ParseDecimal(socio_df[i].val)))
               => IsNaN(r.CRI)

\* a written row with numeric socioeconomic and healthcare scores, no food row
\* for its region, and a missing CRI
C2_Witness ==
    /\ pc = "saved"
    /\ \E r \in OutRows :
          /\ OutKey(r) \notin Regions(food_df)
          /\ OutKey(r) \in Regions(health_df)
          /\ ~IsNaN(r.Socio) /\ ~IsNaN(r.Health) /\ IsNaN(r.Food)
          /\ IsNaN(r.CRI)

\* C3: the regions of the canonical table are exactly the regions of the
\* socioeconomic stage output.
C3_RegionsAreSocioRegions ==
    pc = "saved" => {OutKey(r) : r \in OutRows} = Regions(socio_df)

\* a food-only region is left out, and a socioeconomic region that neither
\* other stage knows is written
C3_Witness ==
    /\ pc = "saved"
    /\ \E k \in Regions(food_df) :
          k \notin Regions(socio_df) /\ k \notin {OutKey(r) : r \in OutRows}
    /\ \E r \in OutRows :
          OutKey(r) \notin Regions(food_df) /\ OutKey(r) \notin Regions(health_df)

\* the food and healthcare tables have rows, and none of their keys is the key
\* of a socioeconomic region: every CRI of the join is missing
JoinKeyMismatch ==
    /\ food_df # <<>> /\ health_df # <<>>
    /\ Regions(food_df) \cap Regions(socio_df) = {}
    /\ Regions(health_df) \cap Regions(socio_df) = {}

\* C4: when the keys of the food and healthcare tables do not match the keys of
\* the socioeconomic base, the composer does not write the canonical table.
C4_MismatchNotPublished == JoinKeyMismatch => pc # "saved"

----------------------------------------------------------------------------
(* Range-phrase parser: a.py, parse_cri_range *)

UpperChars == "ABCDEFGHIJKLMNOPQRSTUVWXYZ"
LowerChars == "abcdefghijklmnopqrstuvwxyz"

LowerChar(c) ==
    IF \E i \in 1..26 : Char(UpperChars, i) = c
    THEN Char(LowerChars, CHOOSE i \in 1..26 : Char(UpperChars, i) = c)
    ELSE c

\* text.lower()
RECURSIVE Lower(_)
Lower(s) ==
    IF Len(s) = 0 THEN s
    ELSE LowerChar(Char(s, 1)) \o Lower(SubSeq(s, 2, Len(s)))

\* \s of the regular expressions, on the whitespace the texts of the model hold
IsSpace(c) == c = " "

\* \s* from position i: the position after the spaces
RECURSIVE SkipSpaces(_, _)
SkipSpaces(t, i) ==
    IF i <= Len(t) /\ IsSpace(Char(t, i)) THEN SkipSpaces(t, i + 1) ELSE i

\* [0-9]* from position i: the position after the digits
RECURSIVE SkipDigits(_, _)
SkipDigits(t, i) ==
    IF i <= Len(t) /\ IsDigit(Char(t, i)) THEN SkipDigits(t, i + 1) ELSE i

\* ([0-9]*\.?[0-9]+) at position i: the position after the longest match, 0 when
\* there is none.  Digits, then a "." only when a digit follows it; without
\* the "." at least one digit.
NumberEnd(t, i) ==
    LET a == SkipDigits(t, i)
        b == IF a <= Len(t) /\ Char(t, a) = "." THEN SkipDigits(t, a + 1) ELSE 0
    IN  IF b > a + 1 THEN b ELSE IF a > i THEN a ELSE 0

\* the literal w at position i
StartsAt(t, i, w) ==
    i + Len(w) - 1 <= Len(t) /\ SubSeq(t, i, i + Len(w) - 1) = w

NoMatch == [ok |-> FALSE, g1 |-> "", g2 |-> ""]

\* between\s*(number)\s*(?:and|to)\s*(number) matched at position i
BetweenAt(t, i) ==
    IF ~StartsAt(t, i, "between") THEN NoMatch
    ELSE
      LET j1 == SkipSpaces(t, i + 7)
          e1 == NumberEnd(t, j1)
      IN  IF e1 = 0 THEN NoMatch
          ELSE
            LET j2 == SkipSpaces(t, e1)
                c  == IF StartsAt(t, j2, "and") THEN j2 + 3
                      ELSE IF StartsAt(t, j2, "to") THEN j2 + 2 ELSE 0
            IN  IF c = 0 THEN NoMatch
                ELSE
                  LET j3 == SkipSpaces(t, c)
                      e2 == NumberEnd(t, j3)
                  IN  IF e2 = 0 THEN NoMatch
                      ELSE [ok |-> TRUE, g1 |-> SubSeq(t, j1, e1 - 1),
                            g2 |-> SubSeq(t, j3, e2 - 1)]

\* <keyword>\s*(number) matched at position i, for "above" and "below"
KeywordAt(t, i, kw) ==
    IF ~StartsAt(t, i, kw) THEN NoMatch
    ELSE
      LET j == SkipSpaces(t, i + Len(kw))
          e == NumberEnd(t, j)
      IN  IF e = 0 THEN NoMatch
          ELSE [ok |-> TRUE, g1 |-> SubSeq(t, j, e - 1), g2 |-> ""]

SetMin(S) == CHOOSE x \in S : \A y \in S : x <= y

\* re.search: the match at the leftmost position where the pattern matches
SearchBetween(t) ==
    LET S == {i \in 1..Len(t) : BetweenAt(t, i).ok}
    IN  IF S = {} THEN NoMatch ELSE BetweenAt(t, SetMin(S))

SearchKeyword(t, kw) ==
    LET S == {i \in 1..Len(t) : KeywordAt(t, i, kw).ok}
    IN  IF S = {} THEN NoMatch ELSE KeywordAt(t, SetMin(S), kw)

Range(lo, hi) == [ok |-> TRUE, lo |-> lo, hi |-> hi]
ValueError == [ok |-> FALSE, lo |-> NaN, hi |-> NaN]

\* mutation of ParseCriRange: the above pattern tried before the between pattern
ParseCriRange_AboveFirst(text) ==
    LET t == Lower(text)
        a == SearchKeyword(t, "above")
        m == SearchBetween(t)
        b == SearchKeyword(t, "below")
    IN  IF a.ok THEN Range(ParseDecimal(a.g1), R(1, 1))
        ELSE IF m.ok THEN Range(ParseDecimal(m.g1), ParseDecimal(m.g2))
        ELSE IF b.ok THEN Range(R(0, 1), ParseDecimal(b.g1))
        ELSE ValueError

\* mutation of ParseCriRange: the text is not lower-cased first
ParseCriRange_CaseSensitive(text) ==
    LET t == text
        m == SearchBetween(t)
        a == SearchKeyword(t, "above")
        b == SearchKeyword(t, "below")
    IN  IF m.ok THEN Range(ParseDecimal(m.g1), ParseDecimal(m.g2))
        ELSE IF a.ok THEN Range(ParseDecimal(a.g1), R(1, 1))
        ELSE IF b.ok THEN Range(R(0, 1), ParseDecimal(b.g1))
        ELSE ValueError

\* mutation of ParseCriRange: the whole range when no pattern matches
ParseCriRange_Default(text) ==
    LET t == Lower(text)
        m == SearchBetween(t)
        a == SearchKeyword(t, "above")
        b == SearchKeyword(t, "below")
    IN  IF m.ok THEN Range(ParseDecimal(m.g1), ParseDecimal(m.g2))
        ELSE IF a.ok THEN Range(ParseDecimal(a.g1), R(1, 1))
        ELSE IF b.ok THEN Range(R(0, 1), ParseDecimal(b.g1))
        ELSE Range(R(0, 1), R(1, 1))

\* parse_cri_range(text): between, then above, then below, else ValueError
ParseCriRange(text) ==
    LET t == Lower(text)
        m == SearchBetween(t)
        a == SearchKeyword(t, "above")
        b == SearchKeyword(t, "below")
    IN  IF m.ok THEN Range(ParseDecimal(m.g1), ParseDecimal(m.g2))
        ELSE IF a.ok THEN Range(ParseDecimal(a.g1), R(1, 1))
        ELSE IF b.ok THEN Range(R(0, 1), ParseDecimal(b.g1))
        ELSE ValueError

----------------------------------------------------------------------------
(* The texts a user types: a question built from phrases.  A phrase records   *)
(* the keyword as typed and the numbers as written, with the value each       *)
(* numeral denotes.                                                           *)

Lit(text, n, d) == [text |-> text, n |-> n, d |-> d]
NoLit == Lit("", 0, 1)

LitValue(l) == R(l.n, l.d)

BetweenPhrases ==
    [kind : {"between"}, kw : {"between", "BETWEEN"},
     x : {Lit("0.2", 2, 10), Lit(".5", 5, 10)}, conj : {"and", "to"},
     y : {Lit("0.6", 6, 10)}]

AbovePhrases ==
    [kind : {"above"}, kw : {"above", "Above"},
     x : {Lit("0.7", 7, 10), Lit(".5", 5, 10)}, conj : {""}, y : {NoLit}]

BelowPhrases ==
    [kind : {"below"}, kw : {"below", "BeLoW"},
     x : {Lit("0.3", 3, 10), Lit("0.25", 25, 100)}, conj : {""}, y : {NoLit}]

FillerPhrases ==
    [kind : {"filler"}, kw : {"that are nice", "in between"},
     x : {NoLit}, conj : {""}, y : {NoLit}]

Phrases == BetweenPhrases \cup AbovePhrases \cup BelowPhrases \cup FillerPhrases

RenderPhrase(p) ==
    IF p.kind = "between"
    THEN p.kw \o " " \o p.x.text \o " " \o p.conj \o " " \o p.y.text
    ELSE IF p.kind = "filler" THEN p.kw
    ELSE p.kw \o " " \o p.x.text

RECURSIVE RenderFrom(_, _)
RenderFrom(src, i) ==
    IF i > Len(src) THEN "?"
    ELSE " " \o RenderPhrase(src[i]) \o RenderFrom(src, i + 1)

\* the question as typed, e.g. "Which counties Above 0.7 below 0.3?"
Render(src) == "Which counties" \o RenderFrom(src, 1)

ParseInit == parsed = NoParse

\* parse_cri_range applied to one typed question
Parse(src) ==
    /\ ~parsed.ran
    /\ parsed' = [ran |-> TRUE, src |-> src, text |-> Render(src),
                  res |-> ParseCriRange(Render(src))]
    /\ UNCHANGED <<composeVars, queryVars, overlayVars>>
    /\ UNCHANGED <<flightVars, sevVars, healthVars, foodVars, clusterVars, newsVars>>

ParseNext == \E src \in SeqsUpTo(Phrases, 1, MaxPhrases) : Parse(src)

InitParse == ParseInit /\ ComposeIdle /\ QueryIdle /\ OverlayIdle
    /\ FlightIdle /\ SevIdle /\ HealthIdle /\ FoodIdle /\ ClusterIdle /\ NewsIdle

SpecParse == InitParse /\ [][ParseNext]_vars

----------------------------------------------------------------------------
(* Properties of the range-phrase parser *)

HasKind(src, k) == \E i \in 1..Len(src) : src[i].kind = k
FirstOf(src, k) == src[SetMin({i \in 1..Len(src) : src[i].kind = k})]

\* C7: the patterns are tried in the order between, above, below and the first
\* that matches anywhere in the text decides the result: a between phrase wins
\* over any above or below phrase, an above phrase over any below phrase,
\* whatever their order in the text.
C7_PriorityOrder ==
    parsed.ran =>
        LET src == parsed.src
            res == parsed.res
        IN  IF HasKind(src, "between")
            THEN res = Range(LitValue(FirstOf(src, "between").x),
                             LitValue(FirstOf(src, "between").y))
            ELSE IF HasKind(src, "above")
            THEN res = Range(LitValue(FirstOf(src, "above").x), R(1, 1))
            ELSE IF HasKind(src, "below")
            THEN res = Range(R(0, 1), LitValue(FirstOf(src, "below").x))
            ELSE ~res.ok

\* an above phrase followed by a between phrase: the between phrase decides
C7_Witness ==
    /\ parsed.ran
    /\ Len(parsed.src) = 2
    /\ parsed.src[1].kind = "above"
    /\ parsed.src[2].kind = "between"
    /\ parsed.res = Range(R(2, 10), R(6, 10))

\* C8: whatever the letter case of the keyword, "above X" gives (X, 1.0),
\* "below X" gives (0.0, X), "between X and Y" and "between X to Y" give (X, Y),
\* X and Y being the decimal numbers written; ".5" is read as 0.5.
C8_PhraseMeaning ==
    (parsed.ran /\ Len(parsed.src) = 1) =>
        LET p == parsed.src[1]
            res == parsed.res
        IN  /\ p.kind = "above" =>
                 res.ok /\ res.lo = LitValue(p.x) /\ res.hi = R(1, 1)
            /\ p.kind = "below" =>
                 res.ok /\ res.lo = R(0, 1) /\ res.hi = LitValue(p.x)
            /\ p.kind = "between" =>
                 res.ok /\ res.lo = LitValue(p.x) /\ res.hi = LitValue(p.y)
            /\ (p.kind # "filler" /\ p.x.text = ".5") => res.lo = R(5, 10)

\* "Which counties BETWEEN .5 to 0.6?" parsed as (0.5, 0.6)
C8_Witness ==
    /\ parsed.ran
    /\ parsed.text = "Which counties BETWEEN .5 to 0.6?"
    /\ parsed.res = Range(R(1, 2), R(3, 5))

----------------------------------------------------------------------------
(* Dashboard query side: a.py, load_data, filter_cri, the Run Chat handler and *)
(* the map filter                                                              *)

RoundDigits == 4

\* Series.round(4): to the nearest multiple of 10^-4, halves to the even one
Round4(a) ==
    IF IsNaN(a) THEN NaN
    ELSE LET m == a.n * Pow10(RoundDigits)
             q == m \div a.d
             r == m % a.d
             up == 2 * r > a.d \/ (2 * r = a.d /\ q % 2 = 1)
         IN  R(IF up THEN q + 1 ELSE q, Pow10(RoundDigits))

\* one row of load_data: the FIPS columns built, the four score columns made
\* numeric and rounded
LoadRow(r) ==
    [state |-> Zfill(r.StateFIPS, 2),
     county |-> Zfill(r.CountyFIPS, 3),
     fips |-> Zfill(r.StateFIPS, 2) \o Zfill(r.CountyFIPS, 3),
     name |-> r.CountyName,
     Socio |-> Round4(r.Socio), Food |-> Round4(r.Food),
     Health |-> Round4(r.Health), CRI |-> Round4(r.CRI)]

\* load_data(): the rows of the canonical table, Georgia only
LoadData(csv) ==
    LET rows == [i \in 1..Len(csv) |-> LoadRow(csv[i])]
        IsGeorgia(r) == r.state = "13"
    IN  SelectSeq(rows, IsGeorgia)

\* mutation of InRange: the bounds taken as exclusive
InRange_Exclusive(r, lo, hi) == RLt(lo, r.CRI) /\ RLt(r.CRI, hi)

\* the row mask of filter_cri: (CRI >= lo) & (CRI <= hi)
InRange(r, lo, hi) == RGeq(r.CRI, lo) /\ RLeq(r.CRI, hi)

SeqRange(seq) == {seq[i] : i \in 1..Len(seq)}

\* the orders sort_values("CRI", ascending=False) can give the rows of sub: by
\* CRI descending.  The default kind is quicksort, which pandas documents as not
\* stable, so rows of equal CRI come in any order.
SortValuesDesc(sub) ==
    {p \in [1..Len(sub) -> SeqRange(sub)] :
        /\ \A i, j \in 1..Len(sub) : i # j => p[i] # p[j]
        /\ \A i, j \in 1..Len(sub) : i < j => RGeq(p[i].CRI, p[j].CRI)}

\* filter_cri(lo, hi): the results it can return
FilterCri(lo, hi) ==
    LET Mask(r) == InRange(r, lo, hi)
    IN  SortValuesDesc(SelectSeq(cri_df, Mask))

\* the rows of the canonical table as the composer writes them: a county with its
\* three sub-scores, CRI = w1*socio + w2*food + w3*health
CsvRow(state, county, name, s, f, h) ==
    [StateFIPS |-> state, StateName |-> "Georgia", CountyFIPS |-> county,
     CountyName |-> name, Socio |-> s, Food |-> f, Health |-> h,
     CRI |-> RowCRI([Resilience_Socio |-> s, Resilience_Food |-> f,
                     Resilience_Health |-> h])]

CsvRows ==
    { CsvRow("13", "001", "A", R(8, 10), R(6, 10), R(7, 10)),
      CsvRow("13", "003", "B", R(5, 10), R(5, 10), R(5, 10)),
      CsvRow("13", "007", "D", R(7, 10), R(7, 10), R(7, 10)),
      CsvRow("13", "009", "E", R(5, 10), NaN, R(5, 10)),
      CsvRow("13", "011", "F", R(5, 10), R(5, 10), R(50005, 100000)),
      CsvRow("12", "001", "G", R(1, 1), R(1, 1), R(1, 1)) }

\* the canonical tables: up to MaxTableRows rows, one row per county
CsvTables ==
    {t \in SeqsUpTo(CsvRows, 1, MaxTableRows) :
        \A i, j \in 1..Len(t) : i # j => t[i] # t[j]}

\* the questions typed into the chat box
ChatSources ==
    { <<[kind |-> "above", kw |-> "above", x |-> Lit(".5", 5, 10),
         conj |-> "", y |-> NoLit]>>,
      <<[kind |-> "below", kw |-> "below", x |-> Lit("0.5", 5, 10),
         conj |-> "", y |-> NoLit]>>,
      <<[kind |-> "between", kw |-> "between", x |-> Lit("0.0", 0, 10),
         conj |-> "and", y |-> Lit("1.0", 10, 10)]>>,
      <<[kind |-> "between", kw |-> "Between", x |-> Lit("0.4", 4, 10),
         conj |-> "to", y |-> Lit("0.7", 7, 10)]>>,
      <<[kind |-> "filler", kw |-> "that are nice", x |-> NoLit,
         conj |-> "", y |-> NoLit]>> }

\* parse_cri_range on each of these questions
ChatParse == [src \in ChatSources |-> ParseCriRange(Render(src))]

\* the values the CRI range slider can be set to
SliderVals == {R(5, 10), R(6, 10), R(7, 10)}

HasCRI == \E i \in 1..Len(cri_df) : ~IsNaN(cri_df[i].CRI)
MinCRI ==
    CHOOSE v \in {cri_df[i].CRI : i \in {j \in 1..Len(cri_df) : ~IsNaN(cri_df[j].CRI)}} :
        \A i \in 1..Len(cri_df) : IsNaN(cri_df[i].CRI) \/ RLeq(v, cri_df[i].CRI)
MaxCRI ==
    CHOOSE v \in {cri_df[i].CRI : i \in {j \in 1..Len(cri_df) : ~IsNaN(cri_df[j].CRI)}} :
        \A i \in 1..Len(cri_df) : IsNaN(cri_df[i].CRI) \/ RGeq(v, cri_df[i].CRI)

\* centroids[geoid] = (cent.y, cent.x), in hundredths of a degree
Centroids ==
    [f \in {"13001", "13003", "13007", "13009", "13011"} |->
        CASE f = "13001" -> <<3175, -8229>>
          [] f = "13003" -> <<3130, -8288>>
          [] f = "13007" -> <<3133, -8444>>
          [] f = "13009" -> <<3307, -8325>>
          [] f = "13011" -> <<3435, -8350>>]

QueryInit ==
    /\ csv_file \in CsvTables
    /\ cri_df = LoadData(csv_file)
    /\ centroids = Centroids
    /\ chat = NoChat
    /\ df_map = NoMap

\* the "Run Chat" button: parse the question, filter, show the result; any
\* exception is shown as an error instead
RunChat(src) ==
    LET res == ChatParse[src]
    IN  /\ IF res.ok
           THEN \E out \in FilterCri(res.lo, res.hi) :
                    chat' = [kind |-> "table", src |-> src, lo |-> res.lo,
                             hi |-> res.hi, rows |-> out]
           ELSE chat' = [kind |-> "error", src |-> src, lo |-> NaN,
                         hi |-> NaN, rows |-> <<>>]
        /\ UNCHANGED <<csv_file, cri_df, centroids, df_map>>
        /\ UNCHANGED <<composeVars, parseVars, overlayVars>>
        /\ UNCHANGED <<flightVars, sevVars, healthVars, foodVars, clusterVars, newsVars>>

\* the right column: df_map = filter_cri(min_c, max_c) with the slider's values
MapFilter(lo, hi) ==
    /\ HasCRI
    /\ RLeq(MinCRI, lo) /\ RLeq(lo, hi) /\ RLeq(hi, MaxCRI)
    /\ \E out \in FilterCri(lo, hi) :
          df_map' = [ran |-> TRUE, lo |-> lo, hi |-> hi, rows |-> out]
    /\ UNCHANGED <<csv_file, cri_df, centroids, chat>>
    /\ UNCHANGED <<composeVars, parseVars, overlayVars>>
    /\ UNCHANGED <<flightVars, sevVars, healthVars, foodVars, clusterVars, newsVars>>

QueryNext ==
    \/ \E src \in ChatSources : RunChat(src)
    \/ \E lo, hi \in SliderVals : MapFilter(lo, hi)

InitQuery == QueryInit /\ ComposeIdle /\ ParseIdle /\ OverlayIdle
    /\ FlightIdle /\ SevIdle /\ HealthIdle /\ FoodIdle /\ ClusterIdle /\ NewsIdle

SpecQuery == InitQuery /\ [][QueryNext]_vars

----------------------------------------------------------------------------
(* Properties of the range filter and of the chat handler *)

\* the results of filter_cri that the model holds, each with its bounds
FilterResults ==
    (IF chat.kind = "table" THEN {[lo |-> chat.lo, hi |-> chat.hi, rows |-> chat.rows]}
     ELSE {})
    \cup
    (IF df_map.ran THEN {[lo |-> df_map.lo, hi |-> df_map.hi, rows |-> df_map.rows]}
     ELSE {})

Loaded == SeqRange(cri_df)

\* position of a returned row in the loaded table
PosIn(r) == CHOOSE i \in 1..Len(cri_df) : cri_df[i] = r

\* C5: filter(lo, hi) returns exactly the regions of the loaded table whose CRI is
\* present and satisfies lo <= CRI <= hi, each once; a region without CRI is
\* never returned; filter(0.0, 1.0) returns every region whose CRI is present.
C5_FilterExact ==
    \A f \in FilterResults :
        /\ SeqRange(f.rows) =
             {r \in Loaded : ~IsNaN(r.CRI) /\ RLeq(f.lo, r.CRI) /\ RLeq(r.CRI, f.hi)}
        /\ \A i, j \in 1..Len(f.rows) : i # j => f.rows[i] # f.rows[j]
        /\ \A i \in 1..Len(f.rows) : ~IsNaN(f.rows[i].CRI)
        /\ (f.lo = R(0, 1) /\ f.hi = R(1, 1)) =>
              SeqRange(f.rows) = {r \in Loaded : ~IsNaN(r.CRI)}

\* filter(0.0, 1.0) over a table that holds a region without CRI, and a bound
\* that is met exactly
C5_Witness ==
    /\ chat.kind = "table" /\ chat.lo = R(0, 1) /\ chat.hi = R(1, 1)
    /\ \E r \in Loaded : IsNaN(r.CRI)
    /\ Len(chat.rows) >= 2
    /\ df_map.ran /\ \E i \in 1..Len(df_map.rows) : df_map.rows[i].CRI = df_map.lo

\* C6: the returned sequence is sorted by CRI descending, and regions of equal
\* CRI keep the order they have in the canonical table.
C6_SortedStable ==
    \A f \in FilterResults :
        \A i, j \in 1..Len(f.rows) :
            i < j =>
                /\ RGeq(f.rows[i].CRI, f.rows[j].CRI)
                /\ f.rows[i].CRI = f.rows[j].CRI => PosIn(f.rows[i]) < PosIn(f.rows[j])

\* C9: when the question matches none of the three patterns, the handler shows
\* an error, filters nothing and shows no filtered rows, and the loaded canonical
\* table stays as it was.
C9_UnparsableRejected ==
    [][ (chat' # chat /\ \A i \in 1..Len(chat'.src) : chat'.src[i].kind = "filler")
          => /\ chat'.kind = "error"
             /\ chat'.rows = <<>>
             /\ ~ChatParse[chat'.src].ok
             /\ cri_df' = cri_df /\ csv_file' = csv_file /\ df_map' = df_map ]_vars

\* the handler has run on "Which counties that are nice?"
C9_Witness ==
    /\ chat.kind = "error"
    /\ Render(chat.src) = "Which counties that are nice?"
    /\ Len(cri_df) >= 2

----------------------------------------------------------------------------
(* Alert Overlay: a.py, fetch_noaa_warnings under @st.cache_data(ttl=300) *)

TTL == 300

\* one alert of the feed: its geocode block, when it has one, lists SAME codes
Alert(same) == [geocode |-> TRUE, SAME |-> same]
NoGeocode == [geocode |-> FALSE, SAME |-> <<>>]

\* what the upstream feed answers at a given moment: a 2xx response with a JSON
\* body that has "features" ("ok"), no answer within 10 s ("timeout"), a non-2xx
\* response whose JSON body lists no feature ("http_error"), a 2xx response whose
\* body is not JSON ("bad_json") or is JSON without "features" ("no_features")
Feeds ==
    { [status |-> "ok", features |-> <<>>],
      [status |-> "ok", features |-> <<Alert(<<"13057">>)>>],
      [status |-> "ok",
       features |-> <<NoGeocode,
                       Alert(<<"13121", "12001", "013057", "1305", "13A57">>)>>],
      [status |-> "timeout", features |-> <<>>],
      [status |-> "http_error", features |-> <<>>],
      [status |-> "bad_json", features |-> <<>>],
      [status |-> "no_features", features |-> <<>>] }

\* mutation of FetchOk: raise_for_status() left out, the body of an error
\* response read like any other
FetchOk_NoRaiseForStatus(f) == f.status \in {"ok", "http_error"}

\* the body of fetch_noaa_warnings reaches its return: requests.get did not time
\* out, raise_for_status() did not raise, r.json() parsed, data["features"] exists
FetchOk(f) == f.status = "ok"

\* the codes of one alert that are kept: len(code) == 5 and code.startswith("13")
AlertCodes(feat) ==
    IF ~feat.geocode THEN {}
    ELSE {feat.SAME[i] : i \in {j \in 1..Len(feat.SAME) :
                                  /\ Len(feat.SAME[j]) = 5
                                  /\ SubSeq(feat.SAME[j], 1, 2) = "13"}}

\* warning_fips: the union over the alerts of the feed
WarningFips(features) == UNION {AlertCodes(features[i]) : i \in 1..Len(features)}

\* the seconds that pass between one script run and the next
Gaps == {1, TTL - 1, TTL}

\* mutation of CacheValid: an entry that never expires
CacheValid_NoExpiry(t) == cache.has

\* the cached entry is served: it exists and is younger than ttl
CacheValid(t) == cache.has /\ t - cache.stored < TTL

OverlayInit ==
    /\ now = 0
    /\ cache = NoCache
    /\ feed \in Feeds
    /\ calls = <<>>

\* the upstream feed changes what it answers
FeedChange ==
    /\ Len(calls) < MaxCalls
    /\ feed' \in Feeds \ {feed}
    /\ UNCHANGED <<now, cache, calls>>
    /\ UNCHANGED <<composeVars, queryVars, parseVars>>
    /\ UNCHANGED <<flightVars, sevVars, healthVars, foodVars, clusterVars, newsVars>>

\* a script run calls fetch_noaa_warnings() d seconds after the previous run:
\* the cached set when the entry is valid; otherwise the function body runs, and
\* its result is cached unless it raises
OverlayCall(d) ==
    /\ Len(calls) < MaxCalls
    /\ now' = now + d
    /\ IF CacheValid(now + d)
       THEN /\ calls' = Append(calls, [t |-> now + d, fetched |-> FALSE,
                                       ok |-> TRUE, result |-> cache.value])
            /\ cache' = cache
       ELSE IF FetchOk(feed)
       THEN /\ calls' = Append(calls, [t |-> now + d, fetched |-> TRUE,
                                       ok |-> TRUE,
                                       result |-> WarningFips(feed.features)])
            /\ cache' = [has |-> TRUE, value |-> WarningFips(feed.features),
                         stored |-> now + d]
       ELSE /\ calls' = Append(calls, [t |-> now + d, fetched |-> TRUE,
                                       ok |-> FALSE, result |-> {}])
            /\ cache' = NoCache
    /\ UNCHANGED feed
    /\ UNCHANGED <<composeVars, queryVars, parseVars>>
    /\ UNCHANGED <<flightVars, sevVars, healthVars, foodVars, clusterVars, newsVars>>

OverlayNext == FeedChange \/ \E d \in Gaps : OverlayCall(d)

InitOverlay == OverlayInit /\ ComposeIdle /\ QueryIdle /\ ParseIdle
    /\ FlightIdle /\ SevIdle /\ HealthIdle /\ FoodIdle /\ ClusterIdle /\ NewsIdle

SpecOverlay == InitOverlay /\ [][OverlayNext]_vars

----------------------------------------------------------------------------
(* Properties of the overlay cache *)

\* C10 as stated: any two calls less than the cache window apart issue at most
\* one upstream fetch between them and return the same alert set.
C10_AnyTwoCallsWithinWindow ==
    \A i, j \in 1..Len(calls) :
        (i < j /\ calls[j].t - calls[i].t < TTL) =>
            /\ ~(calls[i].fetched /\ calls[j].fetched)
            /\ calls[i].ok /\ calls[j].ok
            /\ calls[i].result = calls[j].result

\* the last successful fetch before call j, 0 when there is none
LastFetchBefore(j) ==
    LET S == {i \in 1..(j - 1) : calls[i].fetched /\ calls[i].ok}
    IN  IF S = {} THEN 0 ELSE CHOOSE i \in S : \A k \in S : k <= i

\* C10 amended: a call made less than the cache window after the fetch that
\* filled the cache issues no fetch and returns the set of that fetch; a call
\* made when no successful fetch is that recent issues a new fetch.
C10_WindowOfTheFetch ==
    \A j \in 1..Len(calls) :
        LET i == LastFetchBefore(j)
        IN  IF i # 0 /\ calls[j].t - calls[i].t < TTL
            THEN ~calls[j].fetched /\ calls[j].ok
                 /\ calls[j].result = calls[i].result
            ELSE calls[j].fetched

\* a fetch, a call served from the cache 299 s later, and a call exactly 300 s
\* after the fetch that fetches again and gets another set
C10_Witness ==
    /\ Len(calls) = 3
    /\ calls[1].fetched /\ calls[1].ok
    /\ ~calls[2].fetched /\ calls[2].t - calls[1].t = TTL - 1
    /\ calls[2].result = calls[1].result
    /\ calls[3].fetched /\ calls[3].ok /\ calls[3].t - calls[1].t = TTL
    /\ calls[3].result # calls[1].result

\* C11: a call whose upstream fetch fails (timeout, non-2xx status, body that is
\* not JSON or has no "features") ends in an error and leaves nothing in the
\* cache; the empty alert set is returned only from a successful fetch that
\* held no accepted code, or from the cache such a fetch filled; the call after
\* a failed one fetches again.
C11_FailureIsNotEmptySet ==
    /\ [][ Len(calls') = Len(calls) + 1 =>
             LET c == calls'[Len(calls')]
             IN  /\ (c.fetched /\ feed.status # "ok") => (~c.ok /\ ~cache'.has)
                 /\ (c.ok /\ c.result = {}) =>
                       \/ /\ c.fetched /\ feed.status = "ok"
                          /\ WarningFips(feed.features) = {}
                       \/ /\ ~c.fetched /\ cache.has /\ cache.value = {}
                 /\ (Len(calls) > 0 /\ ~calls[Len(calls)].ok) => c.fetched ]_vars
    /\ [](cache.has =>
            \E i \in 1..Len(calls) :
                /\ calls[i].fetched /\ calls[i].ok
                /\ calls[i].t = cache.stored /\ calls[i].result = cache.value)

\* a fetch that got an error response, then one second later a fetch that
\* succeeds with no accepted code, then that empty set served from the cache
C11_Witness ==
    /\ Len(calls) = 3
    /\ calls[1].fetched /\ ~calls[1].ok
    /\ calls[2].fetched /\ calls[2].ok /\ calls[2].result = {}
    /\ calls[2].t - calls[1].t = 1
    /\ ~calls[3].fetched /\ calls[3].ok /\ calls[3].result = {}

\* every SAME code listed by the alerts of a feed
FeedCodes(features) ==
    UNION {IF features[i].geocode THEN SeqRange(features[i].SAME) ELSE {}
           : i \in 1..Len(features)}

\* a region identifier of the jurisdiction: 5 characters, the state code "13"
\* followed by a 3-digit county code
IsRegionId(code) ==
    /\ Len(code) = 5
    /\ SubSeq(code, 1, 2) = "13"
    /\ \A i \in 3..5 : IsDigit(Char(code, i))

\* C13: the alert set of a successful fetch holds exactly the codes of the feed
\* that are region identifiers of the jurisdiction (5 characters, "13" followed
\* by the county code); every other code and every alert without geocode is
\* skipped.
C13_ExactlyRegionIds ==
    [][ (Len(calls') = Len(calls) + 1 /\ calls'[Len(calls')].fetched
                                      /\ calls'[Len(calls')].ok)
          => calls'[Len(calls')].result =
                {code \in FeedCodes(feed.features) : IsRegionId(code)} ]_vars

----------------------------------------------------------------------------
(* Alert Overlay called from several sessions at once.  Each session runs the *)
(* script in its own thread; st.cache_data reads the cache, and on a miss     *)
(* takes the lock of the cache key, reads the cache again, and only then runs *)
(* the function body and stores what it returns.  The fetch times out after   *)
(* 10 s, far less than the ttl, so the clock is held still while the callers  *)
(* of one miss are served.                                                    *)

MaxCallers == 3

Callers == 1..MaxCallers

\* the cache when the callers arrive: empty, or holding an entry that has expired
StaleCaches ==
    { [now |-> 0, cache |-> NoCache],
      [now |-> TTL, cache |-> [has |-> TRUE, value |-> {"13001"}, stored |-> 0]] }

FlightInit ==
    /\ \E c \in StaleCaches : now = c.now /\ cache = c.cache
    /\ feed \in Feeds
    /\ calls = <<>>
    /\ sess = [c \in Callers |-> [pc |-> "idle", missed |-> FALSE, ok |-> FALSE,
                                  result |-> {}]]
    /\ lock = 0
    /\ fetches = <<>>

\* mutation of LockFree: the body is run without taking the lock of the key
LockFree_NoLock == TRUE

\* the lock of the cache key can be taken
LockFree == lock = 0

\* a caller enters the cached function: the first read of the cache
Invoke(c) ==
    /\ sess[c].pc = "idle"
    /\ IF CacheValid(now)
       THEN sess' = [sess EXCEPT ![c] = [pc |-> "done", missed |-> FALSE,
                                         ok |-> TRUE, result |-> cache.value]]
       ELSE sess' = [sess EXCEPT ![c] = [pc |-> "waiting", missed |-> TRUE,
                                         ok |-> FALSE, result |-> {}]]
    /\ UNCHANGED <<lock, fetches, overlayVars>>
    /\ UNCHANGED <<composeVars, queryVars, parseVars>>
    /\ UNCHANGED <<sevVars, healthVars, foodVars, clusterVars, newsVars>>

\* a caller that missed takes the lock and reads the cache again: a value stored
\* in the meantime is returned, otherwise the function body starts
Acquire(c) ==
    /\ sess[c].pc = "waiting"
    /\ LockFree
    /\ IF CacheValid(now)
       THEN /\ sess' = [sess EXCEPT ![c].pc = "done", ![c].ok = TRUE,
                                    ![c].result = cache.value]
            /\ lock' = 0
       ELSE /\ sess' = [sess EXCEPT ![c].pc = "fetching"]
            /\ lock' = c
    /\ UNCHANGED <<fetches, overlayVars>>
    /\ UNCHANGED <<composeVars, queryVars, parseVars>>
    /\ UNCHANGED <<sevVars, healthVars, foodVars, clusterVars, newsVars>>

\* the function body ends: its set is stored and returned, or its exception
\* leaves the cache as it was; the lock is released either way
Fetch(c) ==
    /\ sess[c].pc = "fetching"
    /\ IF FetchOk(feed)
       THEN /\ sess' = [sess EXCEPT ![c].pc = "done", ![c].ok = TRUE,
                                    ![c].result = WarningFips(feed.features)]
            /\ cache' = [has |-> TRUE, value |-> WarningFips(feed.features),
                         stored |-> now]
            /\ fetches' = Append(fetches, [by |-> c, ok |-> TRUE,
                                           result |-> WarningFips(feed.features)])
       ELSE /\ sess' = [sess EXCEPT ![c].pc = "done", ![c].ok = FALSE]
            /\ cache' = cache
            /\ fetches' = Append(fetches, [by |-> c, ok |-> FALSE, result |-> {}])
    /\ lock' = IF lock = c THEN 0 ELSE lock
    /\ UNCHANGED <<now, feed, calls>>
    /\ UNCHANGED <<composeVars, queryVars, parseVars>>
    /\ UNCHANGED <<sevVars, healthVars, foodVars, clusterVars, newsVars>>

\* the upstream feed changes what it answers while callers are being served
FlightFeedChange ==
    /\ \E c \in Callers : sess[c].pc # "done"
    /\ feed' \in Feeds \ {feed}
    /\ UNCHANGED <<now, cache, calls, flightVars>>
    /\ UNCHANGED <<composeVars, queryVars, parseVars>>
    /\ UNCHANGED <<sevVars, healthVars, foodVars, clusterVars, newsVars>>

FlightNext ==
    \/ \E c \in Callers : Invoke(c)
    \/ \E c \in Callers : Acquire(c)
    \/ \E c \in Callers : Fetch(c)
    \/ FlightFeedChange

InitFlight ==
    /\ FlightInit /\ ComposeIdle /\ QueryIdle /\ ParseIdle
    /\ SevIdle /\ HealthIdle /\ FoodIdle /\ ClusterIdle /\ NewsIdle

SpecFlight == InitFlight /\ [][FlightNext]_vars

----------------------------------------------------------------------------
(* Properties of concurrent overlay calls *)

\* the callers that entered while the cache was empty or expired
Missed == {c \in Callers : sess[c].missed}

----------------------------------------------------------------------------
(* Float arithmetic of the stage scripts: division by zero gives +-inf or NaN *)
(* (pandas raises nothing), and inf takes part in min, max and comparisons    *)

Inf == [k |-> "inf", n |-> 1, d |-> 1]
NegInf == [k |-> "inf", n |-> -1, d |-> 1]

IsInf(a) == a.k = "inf"
IsNum(a) == a.k = "num"

Sign(n) == IF n > 0 THEN 1 ELSE IF n < 0 THEN -1 ELSE 0

\* a < b, a > b: False when either is NaN
FLt(a, b) ==
    /\ ~IsNaN(a) /\ ~IsNaN(b)
    /\ IF IsInf(a) THEN a.n < 0 /\ b # NegInf
       ELSE IF IsInf(b) THEN b.n > 0
       ELSE a.n * b.d < b.n * a.d

FGt(a, b) == FLt(b, a)

\* a - b
FSub(a, b) ==
    IF IsNaN(a) \/ IsNaN(b) THEN NaN
    ELSE IF IsInf(a) THEN (IF IsInf(b) /\ a.n = b.n THEN NaN ELSE a)
    ELSE IF IsInf(b) THEN (IF b.n > 0 THEN NegInf ELSE Inf)
    ELSE R(a.n * b.d - b.n * a.d, a.d * b.d)

\* a / b
FDiv(a, b) ==
    IF IsNaN(a) \/ IsNaN(b) THEN NaN
    ELSE IF IsInf(a) /\ IsInf(b) THEN NaN
    ELSE IF IsInf(b) THEN R(0, 1)
    ELSE IF IsInf(a) THEN (IF b.n >= 0 THEN a
                           ELSE IF a.n > 0 THEN NegInf ELSE Inf)
    ELSE IF b.n = 0 THEN (IF a.n = 0 THEN NaN ELSE IF a.n > 0 THEN Inf ELSE NegInf)
    ELSE R(Sign(b.n) * a.n * b.d, Abs(b.n) * a.d)

\* Series.min() and Series.max(): NaN skipped, NaN when nothing is left
ColMin(col) ==
    LET S == {col[i] : i \in {j \in 1..Len(col) : ~IsNaN(col[j])}}
    IN  IF S = {} THEN NaN ELSE CHOOSE v \in S : \A w \in S : ~FLt(w, v)

ColMax(col) ==
    LET S == {col[i] : i \in {j \in 1..Len(col) : ~IsNaN(col[j])}}
    IN  IF S = {} THEN NaN ELSE CHOOSE v \in S : \A w \in S : ~FGt(w, v)

\* DataFrame.mean(axis=1) of one row: the mean of its non-NaN cells, NaN when
\* every cell is NaN
RECURSIVE RowSum(_, _)
RowSum(cells, i) ==
    IF i > Len(cells) THEN R(0, 1)
    ELSE IF IsNaN(cells[i]) THEN RowSum(cells, i + 1)
    ELSE RAdd(cells[i], RowSum(cells, i + 1))

RowMean(cells) ==
    LET cnt == Cardinality({i \in 1..Len(cells) : ~IsNaN(cells[i])})
    IN  IF cnt = 0 THEN NaN ELSE FDiv(RowSum(cells, 1), R(cnt, 1))

----------------------------------------------------------------------------
(* Socioeconomic stage: sev.py *)

MaxSevRows == 2

\* the county codes of the extracts, one per row in file order
CountyCodes == <<"001", "003", "005", "007">>

\* the indicator values of socioeconomic_full.csv: rates, or an empty cell
PovertyCells == {R(1, 10), R(2, 10), R(4, 10), NaN}
NoHSCells == {R(3, 10), R(5, 10), NaN}
HousingCells == {R(1, 2), NaN}

SevCells ==
    [Poverty_Rate : PovertyCells, No_HS_Education : NoHSCells,
     Housing_Cost_Burden : HousingCells]

\* pd.read_csv('data/socioeconomic_full.csv')
SevTable(cells) ==
    [i \in 1..Len(cells) |->
        [State |-> "13", county |-> CountyCodes[i],
         Poverty_Rate |-> cells[i].Poverty_Rate,
         No_HS_Education |-> cells[i].No_HS_Education,
         Housing_Cost_Burden |-> cells[i].Housing_Cost_Burden]]

SevInit ==
    /\ \E cells \in SeqsUpTo(SevCells, 1, MaxSevRows) : sev_df = SevTable(cells)
    /\ sev_pc = "loaded"

\* mutation of SevNormalize: the column divided by its maximum
SevNormalize_ByMax(col) ==
    [i \in 1..Len(col) |-> FDiv(col[i], ColMax(col))]

\* one pass of the loop over metrics: min-max when maximum > minimum, else the
\* scalar 0.0 in every row
SevNormalize(col) ==
    LET minimum == ColMin(col)
        maximum == ColMax(col)
    IN  IF FGt(maximum, minimum)
        THEN [i \in 1..Len(col) |->
                 FDiv(FSub(col[i], minimum), FSub(maximum, minimum))]
        ELSE [i \in 1..Len(col) |-> R(0, 1)]

Column(df, name) == [i \in 1..Len(df) |-> df[i][name]]

\* step 2: the three norm_ columns
NormalizeIndicators ==
    /\ sev_pc = "loaded"
    /\ LET p == SevNormalize(Column(sev_df, "Poverty_Rate"))
           e == SevNormalize(Column(sev_df, "No_HS_Education"))
           h == SevNormalize(Column(sev_df, "Housing_Cost_Burden"))
       IN  sev_df' = [i \in 1..Len(sev_df) |->
                        sev_df[i] @@ [norm_Poverty_Rate |-> p[i],
                                      norm_No_HS_Education |-> e[i],
                                      norm_Housing_Cost_Burden |-> h[i]]]
    /\ sev_pc' = "normalized"
    /\ UNCHANGED <<composeVars, queryVars, parseVars, overlayVars>>
    /\ UNCHANGED <<flightVars, healthVars, foodVars, clusterVars, newsVars>>

\* step 3: SEV = mean(axis=1) of the three norm_ columns
ComputeSEV ==
    /\ sev_pc = "normalized"
    /\ sev_df' = [i \in 1..Len(sev_df) |->
                    sev_df[i] @@
                    [SEV |-> RowMean(<<sev_df[i].norm_Poverty_Rate,
                                       sev_df[i].norm_No_HS_Education,
                                       sev_df[i].norm_Housing_Cost_Burden>>)]]
    /\ sev_pc' = "sev"
    /\ UNCHANGED <<composeVars, queryVars, parseVars, overlayVars>>
    /\ UNCHANGED <<flightVars, healthVars, foodVars, clusterVars, newsVars>>

\* steps 4 and 5: Resilience_Socio = 1 - SEV, then df.to_csv
SaveSev ==
    /\ sev_pc = "sev"
    /\ sev_df' = [i \in 1..Len(sev_df) |->
                    sev_df[i] @@
                    [Resilience_Socio |-> FSub(R(1, 1), sev_df[i].SEV)]]
    /\ sev_pc' = "saved"
    /\ UNCHANGED <<composeVars, queryVars, parseVars, overlayVars>>
    /\ UNCHANGED <<flightVars, healthVars, foodVars, clusterVars, newsVars>>

SevNext == NormalizeIndicators \/ ComputeSEV \/ SaveSev

InitSev ==
    /\ SevInit /\ ComposeIdle /\ QueryIdle /\ ParseIdle /\ OverlayIdle
    /\ FlightIdle /\ HealthIdle /\ FoodIdle /\ ClusterIdle /\ NewsIdle

SpecSev == InitSev /\ [][SevNext]_vars

----------------------------------------------------------------------------
(* Healthcare stage: healthcare_resilience.py *)

MaxHealthRows == 3

\* (uninsured under 65, total under 65) of one county, as integers of the extract
HealthCounts == {<<0, 0>>, <<5, 0>>, <<1, 10>>, <<2, 10>>, <<5, 10>>}

\* pd.read_csv(INPUT_CSV): the FIPS columns are read as integers
HealthTable(counts) ==
    [i \in 1..Len(counts) |->
        [StateFIPS |-> 13, CountyFIPS |-> 2 * i - 1,
         Uninsured |-> counts[i][1], Total |-> counts[i][2]]]

HealthStageInit ==
    /\ \E counts \in SeqsUpTo(HealthCounts, 1, MaxHealthRows) :
          hc_df = HealthTable(counts)
    /\ hc_pc = "loaded"

\* step 3: uninsured_rate = Uninsured / Total, element by element
UninsuredRate ==
    /\ hc_pc = "loaded"
    /\ hc_df' = [i \in 1..Len(hc_df) |->
                   hc_df[i] @@
                   [uninsured_rate |->
                       FDiv(R(hc_df[i].Uninsured, 1), R(hc_df[i].Total, 1))]]
    /\ hc_pc' = "rate"
    /\ UNCHANGED <<composeVars, queryVars, parseVars, overlayVars>>
    /\ UNCHANGED <<flightVars, sevVars, foodVars, clusterVars, newsVars>>

\* step 4: min-max when maximum_val > minimum_val, else the rates themselves
HealthNormalize(col) ==
    LET minimum_val == ColMin(col)
        maximum_val == ColMax(col)
    IN  IF FGt(maximum_val, minimum_val)
        THEN [i \in 1..Len(col) |->
                 FDiv(FSub(col[i], minimum_val), FSub(maximum_val, minimum_val))]
        ELSE col

NormalizeUninsured ==
    /\ hc_pc = "rate"
    /\ LET n == HealthNormalize(Column(hc_df, "uninsured_rate"))
       IN  hc_df' = [i \in 1..Len(hc_df) |->
                       hc_df[i] @@ [Normalized_Uninsured |-> n[i]]]
    /\ hc_pc' = "normalized"
    /\ UNCHANGED <<composeVars, queryVars, parseVars, overlayVars>>
    /\ UNCHANGED <<flightVars, sevVars, foodVars, clusterVars, newsVars>>

\* steps 5 and 6: Resilience_Health = 1 - Normalized_Uninsured, then df.to_csv
SaveHealth ==
    /\ hc_pc = "normalized"
    /\ hc_df' = [i \in 1..Len(hc_df) |->
                   hc_df[i] @@
                   [Resilience_Health |->
                       FSub(R(1, 1), hc_df[i].Normalized_Uninsured)]]
    /\ hc_pc' = "saved"
    /\ UNCHANGED <<composeVars, queryVars, parseVars, overlayVars>>
    /\ UNCHANGED <<flightVars, sevVars, foodVars, clusterVars, newsVars>>

HealthNext == UninsuredRate \/ NormalizeUninsured \/ SaveHealth

InitHealth ==
    /\ HealthStageInit /\ ComposeIdle /\ QueryIdle /\ ParseIdle /\ OverlayIdle
    /\ FlightIdle /\ SevIdle /\ FoodIdle /\ ClusterIdle /\ NewsIdle

SpecHealth == InitHealth /\ [][HealthNext]_vars

----------------------------------------------------------------------------
(* Food stage: usda_loader.py *)

MaxCensusRows == 2
MaxTracts == 3

\* the county column of socioeconomic_full.csv as text, with or without its
\* leading zeros
CensusCounties == {"001", "3", "005"}

\* tract identifiers of the atlas: state (2), county (3), tract (6)
Tracts == {"13001950100", "13001950200", "13003960100", "12001000200"}

AtlasRows == [CensusTract : Tracts, LILATracts_1And10 : {"0", "1"}]

FoodInit ==
    /\ \E cs \in SeqsUpTo(CensusCounties, 1, MaxCensusRows) :
          /\ \A i, j \in 1..Len(cs) : i # j => cs[i] # cs[j]
          /\ census = [i \in 1..Len(cs) |-> [State |-> "13", county |-> cs[i]]]
    /\ \E rows \in SeqsUpTo(AtlasRows, 0, MaxTracts) :
          /\ \A i, j \in 1..Len(rows) :
                i # j => rows[i].CensusTract # rows[j].CensusTract
          /\ atlas = rows
    /\ county_flag = {}
    /\ merged = <<>>
    /\ food_pc = "loaded"

\* census['county'].str.zfill(3)
PadCensus ==
    /\ food_pc = "loaded"
    /\ census' = [i \in 1..Len(census) |->
                    [census[i] EXCEPT !.county = Zfill(@, 3)]]
    /\ food_pc' = "padded"
    /\ UNCHANGED <<atlas, county_flag, merged>>
    /\ UNCHANGED <<composeVars, queryVars, parseVars, overlayVars>>
    /\ UNCHANGED <<flightVars, sevVars, healthVars, clusterVars, newsVars>>

\* mutation of TractCounty: the county read from the last three characters
TractCounty_Tail(tract) == SubSeq(tract, Len(tract) - 2, Len(tract))

\* CensusTract.str[2:5]
TractCounty(tract) == SubSeq(tract, 3, 5)

\* the atlas rows with State and county cut from the tract identifier, the rows
\* of Georgia kept, the flag cast to int
ExtractFips ==
    /\ food_pc = "padded"
    /\ LET rows == [i \in 1..Len(atlas) |->
                       [CensusTract |-> atlas[i].CensusTract,
                        State |-> SubSeq(atlas[i].CensusTract, 1, 2),
                        county |-> TractCounty(atlas[i].CensusTract),
                        LILATracts_1And10 |-> IntOf(atlas[i].LILATracts_1And10)]]
           IsGeorgia(r) == r.State = "13"
       IN  atlas' = SelectSeq(rows, IsGeorgia)
    /\ food_pc' = "atlas"
    /\ UNCHANGED <<census, county_flag, merged>>
    /\ UNCHANGED <<composeVars, queryVars, parseVars, overlayVars>>
    /\ UNCHANGED <<flightVars, sevVars, healthVars, clusterVars, newsVars>>

RECURSIVE SumFlags(_, _, _)
SumFlags(rows, key, i) ==
    IF i > Len(rows) THEN 0
    ELSE (IF <<rows[i].State, rows[i].county>> = key
          THEN rows[i].LILATracts_1And10 ELSE 0) + SumFlags(rows, key, i + 1)

\* mutation of FlagMean: any flagged tract flags the county
FlagMean_Any(rows, key) ==
    IF SumFlags(rows, key, 1) > 0 THEN R(1, 1) ELSE R(0, 1)

\* the mean of the flag over the tracts of one (State, county) group
FlagMean(rows, key) ==
    R(SumFlags(rows, key, 1),
      Cardinality({i \in 1..Len(rows) : <<rows[i].State, rows[i].county>> = key}))

\* groupby(['State','county']).agg(mean): one row per group; the order of the
\* rows plays no part in the merge that follows
GroupFlags ==
    /\ food_pc = "atlas"
    /\ county_flag' =
          {[State |-> key[1], county |-> key[2],
            frac_lila_tracts |-> FlagMean(atlas, key)] :
             key \in {<<atlas[i].State, atlas[i].county>> : i \in 1..Len(atlas)}}
    /\ food_pc' = "grouped"
    /\ UNCHANGED <<census, atlas, merged>>
    /\ UNCHANGED <<composeVars, queryVars, parseVars, overlayVars>>
    /\ UNCHANGED <<flightVars, sevVars, healthVars, clusterVars, newsVars>>

\* census.merge(county_flag, how='left'), frac_lila_tracts renamed FIS,
\* Resilience_Food = 1 - FIS
MergeFlags ==
    /\ food_pc = "grouped"
    /\ merged' =
          [i \in 1..Len(census) |->
              LET hit == {g \in county_flag : /\ g.State = census[i].State
                                              /\ g.county = census[i].county}
                  FIS == IF hit = {} THEN NaN
                         ELSE (CHOOSE g \in hit : TRUE).frac_lila_tracts
              IN  [State |-> census[i].State, county |-> census[i].county,
                   FIS |-> FIS, Resilience_Food |-> FSub(R(1, 1), FIS)]]
    /\ food_pc' = "merged"
    /\ UNCHANGED <<census, atlas, county_flag>>
    /\ UNCHANGED <<composeVars, queryVars, parseVars, overlayVars>>
    /\ UNCHANGED <<flightVars, sevVars, healthVars, clusterVars, newsVars>>

\* merged.to_csv('data/food_access_score.csv')
SaveFood ==
    /\ food_pc = "merged"
    /\ food_pc' = "saved"
    /\ UNCHANGED <<census, atlas, county_flag, merged>>
    /\ UNCHANGED <<composeVars, queryVars, parseVars, overlayVars>>
    /\ UNCHANGED <<flightVars, sevVars, healthVars, clusterVars, newsVars>>

FoodNext == PadCensus \/ ExtractFips \/ GroupFlags \/ MergeFlags \/ SaveFood

InitFood ==
    /\ FoodInit /\ ComposeIdle /\ QueryIdle /\ ParseIdle /\ OverlayIdle
    /\ FlightIdle /\ SevIdle /\ HealthIdle /\ ClusterIdle /\ NewsIdle

SpecFood == InitFood /\ [][FoodNext]_vars

----------------------------------------------------------------------------
(* The batch pipeline: one of the scripts runs on its input files *)

InitStages == InitSev \/ InitHealth \/ InitFood

StagesNext == SevNext \/ HealthNext \/ FoodNext

SpecStages == InitStages /\ [][StagesNext]_vars

InitPipeline == InitStages \/ InitCompose

PipelineNext == StagesNext \/ ComposeNext

SpecPipeline == InitPipeline /\ [][PipelineNext]_vars

----------------------------------------------------------------------------
(* Properties of the normalizing stages *)

\* the values of a column that are not missing
Present(col) == {col[i] : i \in {j \in 1..Len(col) : ~IsNaN(col[j])}}

\* a column of finite rates with at least two distinct values
NonDegenerate(col) ==
    /\ \A v \in Present(col) : IsNum(v)
    /\ Cardinality(Present(col)) >= 2

\* a column whose values are all present and all equal
Constant(col) ==
    /\ Len(col) >= 1
    /\ \A i \in 1..Len(col) : ~IsNaN(col[i]) /\ col[i] = col[1]

\* norm is a min-max normalization of raw onto [0,1]
UnitRange(raw, norm) ==
    /\ Len(norm) = Len(raw)
    /\ \A i \in 1..Len(raw) :
          IF IsNaN(raw[i]) THEN IsNaN(norm[i])
          ELSE IsNum(norm[i]) /\ InUnit(norm[i])
    /\ ColMin(norm) = Zero
    /\ ColMax(norm) = One

\* the raw and the normalized columns the two stages hold once they have
\* normalized
NormalizedPairs ==
    (IF sev_pc \in {"normalized", "sev", "saved"}
     THEN {<<Column(sev_df, "Poverty_Rate"), Column(sev_df, "norm_Poverty_Rate")>>,
           <<Column(sev_df, "No_HS_Education"),
             Column(sev_df, "norm_No_HS_Education")>>,
           <<Column(sev_df, "Housing_Cost_Burden"),
             Column(sev_df, "norm_Housing_Cost_Burden")>>}
     ELSE {})
    \cup
    (IF hc_pc \in {"normalized", "saved"}
     THEN {<<Column(hc_df, "uninsured_rate"), Column(hc_df, "Normalized_Uninsured")>>}
     ELSE {})

\* C14: in the socioeconomic and in the healthcare stage, a column of rates with
\* at least two distinct non-missing values is normalized to a column of the
\* same length whose non-missing values lie in [0,1], with minimum 0 and
\* maximum 1; a missing value stays missing.
C14_NormalizedUnitRange ==
    \A pr \in NormalizedPairs : NonDegenerate(pr[1]) => UnitRange(pr[1], pr[2])

\* the healthcare stage has normalized the rates 0.1, 0.2, 0.5 to 0, 0.25, 1
C14_Witness ==
    /\ hc_pc = "normalized"
    /\ NonDegenerate(Column(hc_df, "uninsured_rate"))
    /\ \E i \in 1..Len(hc_df) : hc_df[i].Normalized_Uninsured = R(1, 4)
    /\ \E i \in 1..Len(hc_df) : hc_df[i].Normalized_Uninsured = Zero
    /\ \E i \in 1..Len(hc_df) : hc_df[i].Normalized_Uninsured = One

\* C15: in both stages, a column whose values are all equal is normalized to
\* itself: the raw values unchanged, no NaN and no inf introduced.
C15_ConstantColumnUnchanged ==
    \A pr \in NormalizedPairs : Constant(pr[1]) => pr[2] = pr[1]

\* one row of the socioeconomic stage after step 3
SevMetrics(r) == <<r.Poverty_Rate, r.No_HS_Education, r.Housing_Cost_Burden>>
SevNorms(r) ==
    <<r.norm_Poverty_Rate, r.norm_No_HS_Education, r.norm_Housing_Cost_Burden>>

\* the mean of the normalized indicators of a row whose raw value is present
MeanOfPresent(r) ==
    LET raw == SevMetrics(r)
        nrm == SevNorms(r)
    IN  RowMean([i \in 1..3 |-> IF IsNaN(raw[i]) THEN NaN ELSE nrm[i]])

\* C16: in the socioeconomic stage, SEV is the unweighted mean of the normalized
\* indicators whose raw value is present (missing when none is), a missing raw
\* value never counts as zero whatever the column holds, and Resilience_Socio
\* is 1 - SEV, in [0,1].
C16_MeanOfPresentIndicators ==
    /\ sev_pc \in {"sev", "saved"} =>
          \A i \in 1..Len(sev_df) : sev_df[i].SEV = MeanOfPresent(sev_df[i])
    /\ sev_pc = "saved" =>
          \A i \in 1..Len(sev_df) :
             /\ sev_df[i].Resilience_Socio = FSub(One, sev_df[i].SEV)
             /\ IsNaN(sev_df[i].SEV) \/ InUnit(sev_df[i].Resilience_Socio)

\* the rates of the regions whose total population is not zero
RatesOfPopulated ==
    [i \in 1..Len(hc_df) |->
        IF hc_df[i].Total = 0 THEN NaN ELSE hc_df[i].uninsured_rate]

\* C17: in the healthcare stage, a region whose total population under 65 is
\* zero has a missing rate (not infinite, not zero) and stays in the output
\* with a missing resilience; the other regions are normalized with the minimum
\* and maximum of the non-missing rates.
C17_ZeroPopulationIsMissing ==
    /\ hc_pc \in {"rate", "normalized", "saved"} =>
          \A i \in 1..Len(hc_df) :
             hc_df[i].Total = 0 => IsNaN(hc_df[i].uninsured_rate)
    /\ hc_pc \in {"normalized", "saved"} =>
          Column(hc_df, "Normalized_Uninsured") = HealthNormalize(RatesOfPopulated)
    /\ hc_pc = "saved" =>
          \A i \in 1..Len(hc_df) :
             hc_df[i].Total = 0 => IsNaN(hc_df[i].Resilience_Health)

----------------------------------------------------------------------------
(* Properties of the food stage and of the region keys *)

\* the tracts of the atlas that lie in a region: the first two characters of the
\* tract identifier are its state code, the next three its county code
TractsOf(state, county) ==
    {j \in 1..Len(atlas) : SubSeq(atlas[j].CensusTract, 1, 5) = state \o county}

\* C18: in the food stage output every census region is kept; its FIS is the
\* fraction of its tracts whose flag is set and its resilience 1 - FIS; a
\* region without tract in the atlas has FIS and resilience missing.
C18_FractionOfFlaggedTracts ==
    food_pc \in {"merged", "saved"} =>
        /\ Len(merged) = Len(census)
        /\ \A i \in 1..Len(merged) :
              LET T == TractsOf(merged[i].State, merged[i].county)
                  F == {j \in T : atlas[j].LILATracts_1And10 = 1}
              IN  /\ merged[i].State = census[i].State
                  /\ merged[i].county = census[i].county
                  /\ IF T = {}
                     THEN IsNaN(merged[i].FIS) /\ IsNaN(merged[i].Resilience_Food)
                     ELSE /\ merged[i].FIS = R(Cardinality(F), Cardinality(T))
                          /\ merged[i].Resilience_Food = FSub(One, merged[i].FIS)

\* a county with one of its two tracts flagged, FIS 0.5, written next to a
\* county without tract
C18_Witness ==
    /\ food_pc = "saved"
    /\ \E i \in 1..Len(merged) :
          /\ Cardinality(TractsOf(merged[i].State, merged[i].county)) = 2
          /\ merged[i].FIS = R(1, 2) /\ merged[i].Resilience_Food = R(1, 2)
    /\ \E i \in 1..Len(merged) :
          /\ TractsOf(merged[i].State, merged[i].county) = {}
          /\ IsNaN(merged[i].FIS)

\* the keys of a table are pairwise distinct
UniqueKeys(keys) == \A i, j \in 1..Len(keys) : i # j => keys[i] # keys[j]

KeysOf(df, s, c) == [i \in 1..Len(df) |-> <<df[i][s], df[i][c]>>]

RegionKeys(df) == [i \in 1..Len(df) |-> RegionKey(df[i])]

\* each stage output read by the composer has one row per region
OneRowPerRegion ==
    /\ UniqueKeys(RegionKeys(socio_df))
    /\ UniqueKeys(RegionKeys(food_df))
    /\ UniqueKeys(RegionKeys(health_df))

Padded(df) ==
    \A i \in 1..Len(df) : /\ Len(df[i].state) >= 2 /\ Len(df[i].county) >= 3
                          /\ df[i].state = Zfill(df[i].state, 2)
                          /\ df[i].county = Zfill(df[i].county, 3)

\* C19: with one row per region in every source, the region key is unique per
\* row in the output of the socioeconomic, healthcare and food stages and in
\* the canonical table, the canonical table has as many rows as the
\* socioeconomic stage output, and the three stage tables are zero-padded to
\* widths 2 and 3 before they are joined.
C19_UniqueRegionKeys ==
    /\ sev_pc = "saved" => UniqueKeys(KeysOf(sev_df, "State", "county"))
    /\ hc_pc = "saved" => UniqueKeys(KeysOf(hc_df, "StateFIPS", "CountyFIPS"))
    /\ food_pc \in {"merged", "saved"} =>
          /\ UniqueKeys(KeysOf(merged, "State", "county"))
          /\ Len(merged) = Len(census)
    /\ pc \in {"padded", "merged", "numeric", "cri", "saved"} =>
          Padded(socio_df) /\ Padded(food_df) /\ Padded(health_df)
    /\ (pc \in {"merged", "numeric", "cri"} /\ OneRowPerRegion) =>
          /\ Len(merged_file) = Len(socio_df)
          /\ UniqueKeys(KeysOf(merged_file, "state", "county"))
    /\ (pc = "saved" /\ OneRowPerRegion) =>
          /\ Len(csv_out) = Len(socio_df)
          /\ UniqueKeys(KeysOf(csv_out, "StateFIPS", "CountyFIPS"))

\* a canonical table of two regions written from keys that had to be padded:
\* the food row of county "001" joined to the socioeconomic row of county "1"
C19_Witness ==
    /\ pc = "saved" /\ OneRowPerRegion
    /\ Len(csv_out) = 2 /\ Len(food_df) = 1
    /\ \E r \in OutRows : r.CountyFIPS = "001" /\ ~IsNaN(r.Food)
    /\ \E r \in OutRows : r.CountyFIPS = "002"

----------------------------------------------------------------------------
(* Radius filter: a.py, haversine and the right column when a county is      *)
(* selected.  Angles and distances are fixed-point integers: degrees in      *)
(* hundredths, radians in units of 10^-5, sines in units of 10^-5, cosines   *)
(* in units of 10^-4, distances in hundredths of a mile; sin, cos and asin   *)
(* are their Taylor polynomials, exact to about 0.2 mile over Georgia.       *)

MaxRadiusRows == 2

\* math.radians(x): x * pi / 180
Radians(cd) == Sign(cd) * ((Abs(cd) * 174533) \div 10000)

\* x / 2
Half(x) == Sign(x) * (Abs(x) \div 2)

\* math.sin(x) for the small angles of dlat/2 and dlon/2; sin is odd
Sin(x) ==
    LET a == Abs(x)
    IN  Sign(x) * (a - (((a * a) \div 100000) * a) \div 600000)

\* math.cos(x)
Cos(x) ==
    LET a  == Abs(x) \div 10
        q  == (a * a) \div 10000
        q4 == (q * q) \div 10000
        q6 == (q4 * q) \div 10000
        q8 == (q4 * q4) \div 10000
    IN  10000 - q \div 2 + q4 \div 24 - q6 \div 720 + q8 \div 40320

\* math.sqrt(n), rounded down
RECURSIVE SqrtBetween(_, _, _)
SqrtBetween(n, lo, hi) ==
    IF hi - lo <= 1 THEN lo
    ELSE LET mid == (lo + hi) \div 2
         IN  IF mid * mid <= n THEN SqrtBetween(n, mid, hi)
             ELSE SqrtBetween(n, lo, mid)

Sqrt(n) == SqrtBetween(n, 0, 46340)

\* math.asin(y) for small y
Asin(y) == y + (((y * y) \div 100000) * y) \div 600000

\* 3958.8 * 2, the Earth's diameter in miles, times 10
EarthDiameter10 == 79176

\* haversine(a, b): miles between two (lat, lon) pairs, in hundredths of a mile
haversine(a, b) ==
    LET dlat == Radians(b[1] - a[1])
        dlon == Radians(b[2] - a[2])
        s1   == Sin(Half(dlat))
        s2   == Sin(Half(dlon))
        c    == (Cos(Radians(a[1])) * Cos(Radians(b[1]))) \div 10000
        h    == s1 * s1 + (((s2 * s2) \div 100) * c) \div 100
    IN  (EarthDiameter10 * Asin(Sqrt(h))) \div 10000

\* the positions of the radius slider: whole miles from 1 to 100
Radii == {1, 50, 100}

\* the choices of the county box other than "All"
CountyNames == {cri_df[i].name : i \in 1..Len(cri_df)}

\* the canonical tables of the radius filter's runs
RadiusTables ==
    {t \in SeqsUpTo(CsvRows, 1, MaxRadiusRows) :
        \A i, j \in 1..Len(t) : i # j => t[i] # t[j]}

\* the centroid tables load_data builds: counties.geojson holds a feature for
\* every county of the table, or lacks the feature of Atkinson county (13003)
CentroidTables ==
    {Centroids, [f \in DOMAIN Centroids \ {"13003"} |-> Centroids[f]]}

RadiusInit ==
    /\ csv_file \in RadiusTables
    /\ cri_df = LoadData(csv_file)
    /\ centroids \in CentroidTables
    /\ chat = NoChat
    /\ df_map = NoMap

KeyError == [ok |-> FALSE, at |-> <<0, 0>>]

\* mutation of CentroidOf: a lookup with a default, centroids.get(f, (0, 0))
CentroidOf_Get(f) ==
    [ok |-> TRUE, at |-> IF f \in DOMAIN centroids THEN centroids[f] ELSE <<0, 0>>]

\* centroids[f]: the entry of f, KeyError when the table has none
CentroidOf(f) ==
    IF f \in DOMAIN centroids THEN [ok |-> TRUE, at |-> centroids[f]] ELSE KeyError

\* mutation of WithinRadius: the bound taken as exclusive of zero distance
WithinRadius_Strict(r, rad) == r.dist > 0 /\ r.dist <= rad * 100

\* df_map["dist"] <= rad
WithinRadius(r, rad) == r.dist <= rad * 100

\* what fetch_noaa_warnings() gives the script run: the alert set, or an
\* exception
AlertOutcomes == {[ok |-> FALSE, fips |-> {}], [ok |-> TRUE, fips |-> {"13003"}]}

\* mutation of ColumnTarget: the columns assigned to the loaded table itself
ColumnTarget_Loaded == "cri_df"

\* the frame that df_map["dist"] and df_map["warning"] are assigned to: the one
\* filter_cri returned.  cri_df[mask] and sort_values each return a new frame,
\* so it is never the loaded table.
ColumnTarget == "df_map"

\* the Details panel: the title names the selected county, the four metrics
\* are those of r = df_map.iloc[0]
Details(county, rows) ==
    IF Len(rows) = 0 THEN [shown |-> FALSE]
    ELSE [shown |-> TRUE, title |-> county, of |-> rows[1].fips,
          Socio |-> rows[1].Socio, Food |-> rows[1].Food,
          Health |-> rows[1].Health, CRI |-> rows[1].CRI]

\* the right column with a county selected: df_map = filter_cri(min_c, max_c),
\* the distance of every row to the centroid of the county's first row, the
\* rows within rad miles kept, the alert flag of each row, the Details panel.
\* A centroid lookup or the alert fetch that raises ends the script run there.
MapRadius(lo, hi, county, rad, alerts) ==
    /\ county \in CountyNames
    /\ HasCRI
    /\ RLeq(MinCRI, lo) /\ RLeq(lo, hi) /\ RLeq(hi, MaxCRI)
    /\ LET first  == CHOOSE i \in 1..Len(cri_df) :
                        /\ cri_df[i].name = county
                        /\ \A j \in 1..(i - 1) : cri_df[j].name # county
           center == CentroidOf(cri_df[first].fips)
           Near(r) == WithinRadius(r, rad)
           Run(out) ==
              LET found == \A i \in 1..Len(out) : CentroidOf(out[i].fips).ok
                  dist  == [i \in 1..Len(out) |->
                              out[i] @@
                              [dist |-> haversine(center.at,
                                                  CentroidOf(out[i].fips).at)]]
                  near  == SelectSeq(dist, Near)
                  flag  == [i \in 1..Len(near) |->
                              near[i] @@ [warning |-> near[i].fips \in alerts.fips]]
                  base  == [ran |-> TRUE, lo |-> lo, hi |-> hi,
                            county |-> county, rad |-> rad, center |-> center.at,
                            candidates |-> out]
              IN  CASE ~center.ok ->
                        base @@ [error |-> "KeyError", rows |-> <<>>,
                                 details |-> [shown |-> FALSE]]
                    [] center.ok /\ ~found ->
                        base @@ [error |-> "KeyError", rows |-> <<>>,
                                 details |-> [shown |-> FALSE]]
                    [] center.ok /\ found /\ ~alerts.ok ->
                        base @@ [error |-> "fetch", rows |-> near,
                                 details |-> [shown |-> FALSE]]
                    [] OTHER ->
                        base @@ [error |-> "", rows |-> flag,
                                 details |-> Details(county, flag)]
       IN  \E out \in FilterCri(lo, hi) :
              /\ df_map' = Run(out)
              /\ cri_df' = IF ColumnTarget = "cri_df" /\ Run(out).error # "KeyError"
                           THEN Run(out).rows ELSE cri_df
    /\ UNCHANGED <<csv_file, centroids, chat>>
    /\ UNCHANGED <<composeVars, parseVars, overlayVars>>
    /\ UNCHANGED <<flightVars, sevVars, healthVars, foodVars, clusterVars, newsVars>>

\* every script run builds df_map anew from cri_df, so the first run after
\* loading stands for all of them
RadiusNext ==
    /\ ~df_map.ran
    /\ \E lo, hi \in SliderVals, rad \in Radii, alerts \in AlertOutcomes :
          \E county \in {"A", "B", "D", "E", "F"} :
             MapRadius(lo, hi, county, rad, alerts)

InitRadius ==
    /\ RadiusInit /\ ComposeIdle /\ ParseIdle /\ OverlayIdle
    /\ FlightIdle /\ SevIdle /\ HealthIdle /\ FoodIdle /\ ClusterIdle /\ NewsIdle

SpecRadius == InitRadius /\ [][RadiusNext]_vars

----------------------------------------------------------------------------
(* Properties of the radius filter *)

RadiusRan == df_map.ran /\ "county" \in DOMAIN df_map /\ df_map.error # "KeyError"

\* a row without its dist and warning columns
Undist(r) == [f \in DOMAIN r \ {"dist", "warning"} |-> r[f]]

\* C20: the radius filter keeps, of its candidates, exactly those whose haversine
\* distance to the centroid of the center county is <= the radius; the distance
\* is symmetric and is 0 from a point to itself, so the center county is kept
\* for every radius whenever it is among the candidates.
C20_RadiusFilterExact ==
    RadiusRan =>
        LET cand == df_map.candidates
            Dist(r) == haversine(df_map.center, Centroids[r.fips])
        IN  /\ {Undist(df_map.rows[i]) : i \in 1..Len(df_map.rows)} =
                  {r \in SeqRange(cand) : Dist(r) <= df_map.rad * 100}
            /\ Len(df_map.rows) <= Len(cand)
            /\ \A i \in 1..Len(df_map.rows) :
                  df_map.rows[i].dist = Dist(df_map.rows[i])
            /\ \A r, q \in SeqRange(cand) :
                  /\ haversine(Centroids[r.fips], Centroids[q.fips]) =
                        haversine(Centroids[q.fips], Centroids[r.fips])
                  /\ haversine(Centroids[r.fips], Centroids[r.fips]) = 0
            /\ \A r \in SeqRange(cand) :
                  (r.name = df_map.county /\ Centroids[r.fips] = df_map.center)
                     => \E i \in 1..Len(df_map.rows) : Undist(df_map.rows[i]) = r

\* county A selected with radius 50: county B, 46 miles away, is kept with A
C20_Witness ==
    /\ RadiusRan /\ df_map.county = "A" /\ df_map.rad = 50
    /\ Len(df_map.candidates) = 2 /\ Len(df_map.rows) = 2
    /\ \E i \in 1..2 : df_map.rows[i].name = "A" /\ df_map.rows[i].dist = 0
    /\ \E i \in 1..2 : df_map.rows[i].name = "B" /\ df_map.rows[i].dist > 4000

----------------------------------------------------------------------------
(* Resilience clustering: interactive_dashboard.py, compute_res_clusters.    *)
(* KMeans(n_clusters, random_state=0).fit_predict is scikit-learn's: the     *)
(* k-means++ draw of the initial centers, then Lloyd's iterations.  The seed *)
(* fixes the draw, so the centers drawn are a function of X: one of the      *)
(* draws k-means++ can make, always the same one for the same X.             *)

\* the default of compute_res_clusters(df, n_clusters=4)
n_clusters == 4

MaxClusterRows == 4

\* the cap on Lloyd's iterations (max_iter)
MaxIter == 3

\* the values of n_clusters the function is called with
Ks == {2, n_clusters}

\* mutation of Features: the CRI column taken as a fourth feature
Features_WithCRI(r) == <<r.Socio, r.Food, r.Health, r.CRI>>

\* df[["Socioeconomic Resilience", "Food Resilience", "Healthcare Resilience"]]
Features(r) == <<r.Socio, r.Food, r.Health>>

\* X = df[[...]].to_numpy()
RECURSIVE ToNumpyFrom(_, _)
ToNumpyFrom(df, i) ==
    IF i = 0 THEN <<>> ELSE Append(ToNumpyFrom(df, i - 1), Features(df[i]))

ToNumpy(df) == ToNumpyFrom(df, Len(df))

RSub(a, b) == RAdd(a, R(-b.n, b.d))

\* squared Euclidean distance of two points
RECURSIVE SqDistFrom(_, _, _)
SqDistFrom(p, q, d) ==
    IF d > Len(p) THEN R(0, 1)
    ELSE RAdd(RMul(RSub(p[d], q[d]), RSub(p[d], q[d])), SqDistFrom(p, q, d + 1))

SqDist(p, q) == SqDistFrom(p, q, 1)

\* the draws of k-means++: k sample indices, each one after the first a point
\* at a positive distance from the centers already drawn, as long as there is
\* such a point
Seeds(X, k) ==
    {s \in [1..k -> 1..Len(X)] :
        \A m \in 2..k :
            LET drawn == {X[s[t]] : t \in 1..(m - 1)}
            IN  (\E i \in 1..Len(X) : X[i] \notin drawn) => X[s[m]] \notin drawn}

\* the points of X at the indices s, in that order
RECURSIVE Points(_, _, _)
Points(X, s, j) ==
    IF j = 0 THEN <<>> ELSE Append(Points(X, s, j - 1), X[s[j]])

\* the initial centers under random_state=0
KMeansInit(X, k) == Points(X, CHOOSE s \in Seeds(X, k) : TRUE, k)

\* the index of the center nearest to x, the lowest one on a tie (argmin)
Nearest(x, C) ==
    CHOOSE j \in 1..Len(C) :
        \A m \in 1..Len(C) :
            /\ RLeq(SqDist(x, C[j]), SqDist(x, C[m]))
            /\ m < j => RLt(SqDist(x, C[j]), SqDist(x, C[m]))

\* the labels of the first i points
RECURSIVE Labels(_, _, _)
Labels(X, C, i) ==
    IF i = 0 THEN <<>> ELSE Append(Labels(X, C, i - 1), Nearest(X[i], C))

RECURSIVE ColSum(_, _, _, _, _)
ColSum(X, L, j, d, i) ==
    IF i = 0 THEN R(0, 1)
    ELSE RAdd(IF L[i] = j THEN X[i][d] ELSE R(0, 1), ColSum(X, L, j, d, i - 1))

\* the first d coordinates of the mean of the m points labelled j
RECURSIVE MeanOf(_, _, _, _, _)
MeanOf(X, L, j, m, d) ==
    IF d = 0 THEN <<>>
    ELSE Append(MeanOf(X, L, j, m, d - 1),
                RMul(ColSum(X, L, j, d, Len(X)), R(1, m)))

\* the first j centers moved to the means of their points; a center without
\* points stays
RECURSIVE Means(_, _, _, _)
Means(X, L, C, j) ==
    IF j = 0 THEN <<>>
    ELSE LET m == Cardinality({i \in 1..Len(X) : L[i] = j})
         IN  Append(Means(X, L, C, j - 1),
                    IF m = 0 THEN C[j] ELSE MeanOf(X, L, j, m, Len(C[j])))

\* Lloyd's iterations from centers C: label, move the centers, until they stay
\* or the cap is hit; the labels returned are those of the centers returned
RECURSIVE Lloyd(_, _, _)
Lloyd(X, C, it) ==
    LET L  == Labels(X, C, Len(X))
        C2 == Means(X, L, C, Len(C))
    IN  IF C2 = C \/ it = 0
        THEN [labels |-> Labels(X, C2, Len(X)), centers |-> C2]
        ELSE Lloyd(X, C2, it - 1)

ValueError_KMeans == [ok |-> FALSE, labels |-> <<>>, centers |-> <<>>]

\* KMeans(n_clusters=k, random_state=0).fit_predict(X): ValueError when X
\* holds a NaN or fewer than k samples
fit_predict(X, k) ==
    IF \/ Len(X) < k
       \/ \E i \in 1..Len(X) : \E d \in 1..Len(X[i]) : IsNaN(X[i][d])
    THEN ValueError_KMeans
    ELSE [ok |-> TRUE] @@ Lloyd(X, KMeansInit(X, k), MaxIter)

\* labels.astype(str): label j of 0..k-1 as its numeral
LabelStr(j) == Char(Digits, j)

ClusterTables ==
    {t \in SeqsUpTo(CsvRows, 1, MaxClusterRows) :
        \A i, j \in 1..Len(t) : i # j => t[i] # t[j]}

ClusterInit ==
    /\ csv_file \in ClusterTables
    /\ cri_df = LoadData(csv_file)
    /\ centroids = Centroids
    /\ chat = NoChat
    /\ df_map = NoMap
    /\ clustered_df = NoClusters
    /\ kmeans_model = NoClusters

\* compute_res_clusters(cri_df, k): the labels go into a copy of the frame
ComputeResClusters(k) ==
    /\ Len(cri_df) >= 1
    /\ LET res == fit_predict(ToNumpy(cri_df), k)
           df2 == [i \in 1..Len(cri_df) |->
                     cri_df[i] @@ [cluster |-> LabelStr(res.labels[i])]]
       IN  /\ clustered_df' =
                 IF res.ok THEN [ran |-> TRUE, ok |-> TRUE, k |-> k, rows |-> df2]
                 ELSE [ran |-> TRUE, ok |-> FALSE, k |-> k, rows |-> <<>>]
           /\ kmeans_model' = [ran |-> TRUE, ok |-> res.ok, centers |-> res.centers]
           /\ cri_df' = IF ColumnTarget = "cri_df" /\ res.ok THEN df2 ELSE cri_df
    /\ UNCHANGED <<csv_file, centroids, chat, df_map>>
    /\ UNCHANGED <<composeVars, parseVars, overlayVars>>
    /\ UNCHANGED <<flightVars, sevVars, healthVars, foodVars, newsVars>>

\* the call at import runs once in a script run
ClusterNext == ~clustered_df.ran /\ \E k \in Ks : ComputeResClusters(k)

InitCluster ==
    /\ ClusterInit /\ ComposeIdle /\ ParseIdle /\ OverlayIdle
    /\ FlightIdle /\ SevIdle /\ HealthIdle /\ FoodIdle /\ NewsIdle

SpecCluster == InitCluster /\ [][ClusterNext]_vars

----------------------------------------------------------------------------
(* Properties of the clustering *)

Clustered == clustered_df.ran /\ clustered_df.ok

\* a row without its cluster column
Unlabelled(r) == [f \in DOMAIN r \ {"cluster"} |-> r[f]]

\* a second input that agrees with df on the three sub-scores of every region
\* and differs in the CRI column and in the names
OtherColumns(df) ==
    [i \in 1..Len(df) |-> [df[i] EXCEPT !.CRI = R(i, 10), !.name = "Z"]]

\* two labellings that are the same up to the numbering of the clusters
SamePartition(L1, L2) ==
    /\ Len(L1) = Len(L2)
    /\ \A i, j \in 1..Len(L1) : (L1[i] = L1[j]) <=> (L2[i] = L2[j])

DistinctRegions == {Features(cri_df[i]) : i \in 1..Len(cri_df)}

\* C23: clustering never returns an empty cluster: with fewer distinct regions
\* (distinct sub-score vectors) than k, cluster(k) fails; otherwise each of the
\* k clusters returned has at least one member.
C23_NoEmptyCluster ==
    clustered_df.ran =>
        /\ Cardinality(DistinctRegions) < clustered_df.k => ~clustered_df.ok
        /\ clustered_df.ok =>
              \A j \in 1..clustered_df.k :
                  \E i \in 1..Len(clustered_df.rows) :
                      clustered_df.rows[i].cluster = LabelStr(j)

----------------------------------------------------------------------------
(* A dashboard session: the loaded table and centroids, and any sequence of  *)
(* chat questions, map filters, radius filters with their alert flags, and   *)
(* clusterings over them                                                     *)

MaxSessionRows == 2

SessionTables ==
    {t \in SeqsUpTo({r \in CsvRows : r.CountyName \in {"A", "B", "E"}},
                    1, MaxSessionRows) :
        \A i, j \in 1..Len(t) : i # j => t[i] # t[j]}

SessionInit ==
    /\ csv_file \in SessionTables
    /\ cri_df = LoadData(csv_file)
    /\ centroids \in CentroidTables
    /\ chat = NoChat
    /\ df_map = NoMap
    /\ clustered_df = NoClusters
    /\ kmeans_model = NoClusters

\* the questions of the session: one that parses, one that does not
SessionSources == {src \in ChatSources : src[1].kind \in {"above", "filler"}}

\* the positions of the CRI range slider in the session
SessionSlider == {R(5, 10), R(7, 10)}

SessionNext ==
    \/ \E src \in SessionSources : RunChat(src)
    \/ \E lo, hi \in SessionSlider : MapFilter(lo, hi)
    \/ \E lo, hi \in SessionSlider, alerts \in AlertOutcomes :
          \E county \in {"A", "B", "E"} : MapRadius(lo, hi, county, 50, alerts)
    \/ ComputeResClusters(2)

InitSession ==
    /\ SessionInit /\ ComposeIdle /\ ParseIdle /\ OverlayIdle
    /\ FlightIdle /\ SevIdle /\ HealthIdle /\ FoodIdle /\ NewsIdle

SpecSession == InitSession /\ [][SessionNext]_vars

\* the columns the invocations derive
DerivedColumns == {"dist", "warning", "cluster"}

\* C24: after any sequence of range-filter, parse, radius-filter, clustering and
\* alert-flagging invocations the loaded canonical table and the centroid table
\* are unchanged; the distance, the cluster label and the alert flag are written
\* only to the copies of one invocation, so filter(lo, hi) applied again yields
\* what it yielded before.
C24_LoadedTablesUnchanged ==
    /\ [](\A i \in 1..Len(cri_df) : DOMAIN cri_df[i] \cap DerivedColumns = {})
    /\ [][ /\ cri_df' = cri_df
           /\ csv_file' = csv_file
           /\ centroids' = centroids
           /\ \A lo, hi \in SessionSlider : FilterCri(lo, hi)' = FilterCri(lo, hi) ]_vars

\* a session that has asked the chat, filtered by radius with an alert flag set
\* and clustered, each leaving its derived columns in its own result
C24_Witness ==
    /\ chat.kind = "table" /\ Len(chat.rows) = 2
    /\ df_map.ran /\ "county" \in DOMAIN df_map /\ df_map.error = ""
    /\ Len(df_map.rows) = 2
    /\ \E i \in 1..2 : df_map.rows[i].warning /\ df_map.rows[i].dist > 0
    /\ clustered_df.ran /\ clustered_df.ok
    /\ \E i \in 1..2 : clustered_df.rows[i].cluster = "1"
    /\ cri_df = LoadData(csv_file)

----------------------------------------------------------------------------
(* Properties of the rounding done by load_data *)

\* the row of the canonical table a loaded row was read from, with the CRI as
\* the Index Composer wrote it
Emitted(r) == CHOOSE c \in SeqRange(csv_file) : LoadRow(c) = r

\* C25: rounding to 4 decimal places affects display only: the range filter
\* compares lo and hi with the full-precision CRI the Index Composer emitted, so
\* a region is returned if and only if its unrounded CRI satisfies
\* lo <= CRI <= hi.
C25_FilterOnFullPrecision ==
    \A f \in FilterResults :
        SeqRange(f.rows) =
            {r \in Loaded : RLeq(f.lo, Emitted(r).CRI) /\ RLeq(Emitted(r).CRI, f.hi)}

----------------------------------------------------------------------------
(* Properties of the right column: unknown center, Details panel, frames *)

\* the region identifier of the selected county: the fips of its first row
CenterFips(county) ==
    LET first == CHOOSE i \in 1..Len(cri_df) :
                    /\ cri_df[i].name = county
                    /\ \A j \in 1..(i - 1) : cri_df[j].name # county
    IN  cri_df[first].fips

\* C21: when the center region given to the radius filter has no entry in the
\* centroid table, the filter fails with an error the caller sees and produces
\* no filtered result; the canonical table and the centroid table are unchanged.
C21_UnknownCenterFails ==
    [][ ( /\ df_map' # df_map
          /\ "county" \in DOMAIN df_map'
          /\ CenterFips(df_map'.county) \notin DOMAIN centroids )
          => /\ df_map'.error = "KeyError"
             /\ df_map'.rows = <<>>
             /\ ~df_map'.details.shown
             /\ cri_df' = cri_df /\ csv_file' = csv_file
             /\ centroids' = centroids ]_vars

\* county B selected while the centroid table has no entry for 13003, with two
\* candidates in the CRI range
C21_Witness ==
    /\ df_map.ran /\ "county" \in DOMAIN df_map
    /\ df_map.county = "B" /\ CenterFips("B") = "13003"
    /\ "13003" \notin DOMAIN centroids
    /\ df_map.error = "KeyError"
    /\ Len(df_map.candidates) = 2

\* C26: whenever a county is selected as the radius center and the filtered set
\* is not empty, the "Details: <county>" panel shows the four scores of the
\* selected county itself, not those of another region of the filtered set.
C26_DetailsOfSelectedCounty ==
    (df_map.ran /\ "details" \in DOMAIN df_map /\ df_map.details.shown) =>
        LET d == df_map.details
        IN  /\ d.title = df_map.county
            /\ \E i \in 1..Len(cri_df) :
                  /\ cri_df[i].name = df_map.county
                  /\ cri_df[i].fips = d.of
                  /\ <<cri_df[i].Socio, cri_df[i].Food, cri_df[i].Health,
                       cri_df[i].CRI>> = <<d.Socio, d.Food, d.Health, d.CRI>>

----------------------------------------------------------------------------
(* News feed pagination: a.py, the sidebar.  One action is one run of the    *)
(* script: Streamlit reruns it on every widget event, the widgets keep their *)
(* values from run to run, a button is True only in the run its click        *)
(* caused, and feedparser.parse fetches the feed anew in every run.          *)

per_page == 5

DefaultArticles == 20

\* the positions of the "Max articles to fetch" slider (1 to 50)
ArticleCounts == {1, 5, DefaultArticles}

\* the numbers of entries the feed answers with
FeedSizes == {0, 7, 20}

\* the texts typed into the keyword box
Keywords == {"flood", " flood ", "fire", ""}

\* str.strip()
RECURSIVE Strip(_)
Strip(s) ==
    IF Len(s) = 0 THEN s
    ELSE IF Char(s, 1) = " " THEN Strip(SubSeq(s, 2, Len(s)))
    ELSE IF Char(s, Len(s)) = " " THEN Strip(SubSeq(s, 1, Len(s) - 1))
    ELSE s

\* feed_url: the query of the one keyword, " Georgia" appended to the
\* stripped text, no term for an empty one; quote_plus and the fixed prefix
\* and suffix map different queries to different URLs
FeedUrl(kw_input) == IF Strip(kw_input) = "" THEN "" ELSE Strip(kw_input) \o " Georgia"

Min(a, b) == IF a <= b THEN a ELSE b

\* math.ceil(n / per_page) or 1
TotalPages(n) == IF n = 0 THEN 1 ELSE (n + per_page - 1) \div per_page

NewsInit ==
    /\ session_state = NoSession
    /\ sidebar = [ran |-> FALSE, kw_input |-> "flood",
                  total_to_fetch |-> DefaultArticles]

\* one run of the sidebar block with the widgets at kw_input and
\* total_to_fetch, the feed answering with fetched entries, click the button
\* that caused the run ("prev", "next" or "none")
SidebarRun(kw_input, total_to_fetch, fetched, click) ==
    LET feed_url    == FeedUrl(kw_input)
        all_entries == Min(fetched, total_to_fetch)
        reset       == \/ ~session_state.set
                       \/ session_state.news_query # feed_url
        page        == IF reset THEN 1 ELSE session_state.news_page
        total_pages == TotalPages(all_entries)
        start       == (page - 1) * per_page
        end         == start + per_page
        shown       == IF Min(end, all_entries) > start
                       THEN Min(end, all_entries) - start ELSE 0
        after_prev  == IF click = "prev" /\ page > 1 THEN page - 1 ELSE page
        after_next  == IF click = "next" /\ page < total_pages
                       THEN after_prev + 1 ELSE after_prev
    IN  /\ session_state' = [set |-> TRUE, news_page |-> after_next,
                             news_query |-> feed_url]
        /\ sidebar' = [ran |-> TRUE, kw_input |-> kw_input,
                       total_to_fetch |-> total_to_fetch,
                       all_entries |-> all_entries, page |-> page,
                       total_pages |-> total_pages, shown |-> shown]
        /\ UNCHANGED <<composeVars, queryVars, parseVars, overlayVars>>
        /\ UNCHANGED <<flightVars, sevVars, healthVars, foodVars, clusterVars>>

\* the first run of a session: the widgets at their defaults
FirstRun(fetched) ==
    /\ ~sidebar.ran
    /\ SidebarRun(sidebar.kw_input, sidebar.total_to_fetch, fetched, "none")

\* the keyword box edited
KeywordChange(kw, fetched) ==
    /\ sidebar.ran /\ kw # sidebar.kw_input
    /\ SidebarRun(kw, sidebar.total_to_fetch, fetched, "none")

\* the "Max articles to fetch" slider moved
ArticlesChange(n, fetched) ==
    /\ sidebar.ran /\ n # sidebar.total_to_fetch
    /\ SidebarRun(sidebar.kw_input, n, fetched, "none")

\* "« Prev Page" clicked
PrevPage(fetched) ==
    /\ sidebar.ran
    /\ SidebarRun(sidebar.kw_input, sidebar.total_to_fetch, fetched, "prev")

\* "Next Page »" clicked
NextPage(fetched) ==
    /\ sidebar.ran
    /\ SidebarRun(sidebar.kw_input, sidebar.total_to_fetch, fetched, "next")

\* a rerun caused by a widget outside the sidebar
Rerun(fetched) ==
    /\ sidebar.ran
    /\ SidebarRun(sidebar.kw_input, sidebar.total_to_fetch, fetched, "none")

NewsNext ==
    \E fetched \in FeedSizes :
        \/ FirstRun(fetched)
        \/ \E kw \in Keywords : KeywordChange(kw, fetched)
        \/ \E n \in ArticleCounts : ArticlesChange(n, fetched)
        \/ PrevPage(fetched)
        \/ NextPage(fetched)
        \/ Rerun(fetched)

InitNews ==
    /\ NewsInit /\ ComposeIdle /\ QueryIdle /\ ParseIdle /\ OverlayIdle
    /\ FlightIdle /\ SevIdle /\ HealthIdle /\ FoodIdle /\ ClusterIdle

SpecNews == InitNews /\ [][NewsNext]_vars

\* C27: after any sequence of keyword changes, max-articles slider changes, feed
\* results and Prev/Next clicks, the page number held in the session state stays
\* within 1..total_pages, total_pages being that of the entries of the current
\* run.
C27_PageWithinTotal ==
    sidebar.ran =>
        /\ session_state.set
        /\ session_state.news_page \in 1..sidebar.total_pages

====
